---- MODULE Spec2Model ----
(***************************************************************************)
(* Model of the abacus orchestrator (src/main.py): the tick loop, the      *)
(* planner rounds, the sensitive-action confirmation gate, the dispatch    *)
(* table, the payload-size guard and the operator control channel; and of  *)
(* the tools examined on their own: sanitize_arguments (SanitizeSpec),     *)
(* LoopClient.initiate_loop_out (LoopSpec), calculate_and_quote_loop_outs  *)
(* (QuoteSpec), analyze_channel_liquidity_flow (FlowSpec),                 *)
(* find_rebalance_opportunities (RebalanceSpec),                           *)
(* LNDClient.propose_channel_opens (ProposeSpec), analyze_peer_network     *)
(* (NetworkSpec, NetworkFairSpec), the node-graph cache (CacheSpec),       *)
(* calculate_dynamic_fee (FeeSpec), LNDClient.execute_channel_opens        *)
(* (OpenSpec), execute_rebalance (ExecuteRebalanceSpec), the catalog       *)
(* against the dispatch table (DispatchSpec) and get_top_and_filter_nodes  *)
(* (TopNodesSpec).                                                         *)
(*                                                                         *)
(* Text is modelled as a sequence of one-character strings so that         *)
(* str.strip() and str.lower() are computed, not assumed.                  *)
(***************************************************************************)
EXTENDS Integers, Sequences, FiniteSets, TLC

\* ------------------------------------------------------------------------
\* Bounds of the model
\* ------------------------------------------------------------------------

\* largest number of parts in one planner response
MaxParts == 2

\* ------------------------------------------------------------------------
\* Program constants
\* ------------------------------------------------------------------------

\* src/config.py: MAX_PAYLOAD_SIZE_CHARACTERS
MAX_PAYLOAD_SIZE_CHARACTERS == 30000

\* src/main.py: sensitive_tools
sensitive_tools ==
    { "execute_channel_opens", "initiate_loop_out",
      "execute_rebalance", "execute_channel_closes" }

\* src/main.py: the keys of tool_implementations
tool_implementations ==
    { "get_lnd_info", "get_lnd_wallet_balance", "get_lnd_channel_balance",
      "get_lnd_state", "set_fee_policy", "propose_channel_opens",
      "execute_channel_opens", "execute_channel_closes", "list_lnd_peers",
      "connect_peer", "batch_connect_peers", "get_top_and_filter_nodes",
      "get_fee_recommendations", "get_node_uri", "list_lnd_channels",
      "analyze_channel_liquidity_flow", "calculate_and_quote_loop_outs",
      "initiate_loop_out", "should_open_to_loop", "list_loop_out_swaps",
      "propose_fee_adjustments", "execute_rebalance",
      "find_rebalance_opportunities", "propose_channel_closes" }

\* src/main.py: the instruction every tick starts from
DEFAULT_INSTRUCTION ==
    << "Assess the node's current state and take action if necessary." >>

\* src/main.py: the reserved tokens of the control channel
EXIT_TOKENS == { <<"e", "x", "i", "t">>, <<"q", "u", "i", "t">> }

\* src/tui.py: the answers get_confirmation accepts
YES_ANSWERS == { <<"y">>, <<"y", "e", "s">> }
NO_ANSWERS == { <<"n">>, <<"n", "o">> }

\* ------------------------------------------------------------------------
\* Inputs of the environment (planner, operator, collaborators)
\* ------------------------------------------------------------------------

\* action names the planner may request; the last one is in no table
RequestNames ==
    { "execute_channel_opens", "initiate_loop_out", "execute_rebalance",
      "execute_channel_closes", "set_fee_policy", "get_lnd_info",
      "drain_wallet" }

TextPart == [function_call |-> "", text |-> "narrative"]
CallPart(n) == [function_call |-> n, text |-> ""]

\* the parts a planner response may carry
Parts == { TextPart } \cup { CallPart(n) : n \in RequestNames }

RECURSIVE SeqsUpTo(_, _)
SeqsUpTo(S, n) ==
    IF n = 0 THEN { <<>> }
    ELSE LET shorter == SeqsUpTo(S, n - 1)
         IN  shorter \cup { Append(s, x) : s \in { t \in shorter : Len(t) = n - 1 }, x \in S }

PartLists == SeqsUpTo(Parts, MaxParts)

\* lines the operator may type on the control channel (readline keeps "\n")
ControlLines ==
    { <<"e", "x", "i", "t", "\n">>,
      <<" ", "Q", "u", "I", "t", "\t", "\n">>,
      <<"E", "X", "I", "T", "\n">>,
      <<"e", "x", " ", "i", "t", "\n">>,
      <<"e", "x", "i", "t", "s", "\n">>,
      <<"o", "p", "e", "n", "\n">>,
      <<"\n">>,
      <<>> }

\* answers the operator may type at the confirmation prompt
ConfirmInputs ==
    { <<"y">>, <<"Y", "E", "S">>, <<"n">>, <<"N", "o">>, <<"o", "k">>, <<>> }

\* serialized lengths of the Part that wraps a collaborator's output
OutputLens == { 120, 14998, 29998, 29999 }

\* messages of the exceptions a collaborator call may raise
ExceptionMessages == { <<"rpc unavailable">> }

\* the parameters of LNDClient.execute_channel_closes; main.py binds the
\* method into the dispatch table but, like get_channel_info, _query_routes,
\* _add_invoice, _send_to_route_v2 and get_node_alias, which the tools call,
\* it is not in src/tools/lnd_tools.py; it is taken to exist with the
\* parameters of its declaration
execute_channel_closes_params == { "channel_points" }

\* the parameters of get_node_uri, which main.py imports from
\* tools.mempool_space_tools but which is not in that file; it is taken to
\* exist with the parameters of its declaration
get_node_uri_params == { "pubkey" }

\* the parameters each implementation in the dispatch table takes, after the
\* ones the table's lambdas supply (lnd_tools.py 85, 148, 347; loop_tools.py
\* 115; rebalance_tools.py 13); none has a default, so all are required
ImplementationParams(name) ==
    CASE name = "get_lnd_info" -> {}
      [] name = "set_fee_policy" ->
             { "channel_id", "base_fee_msat", "fee_rate_ppm" }
      [] name = "execute_channel_opens" -> { "operations" }
      [] name = "execute_channel_closes" -> execute_channel_closes_params
      [] name = "initiate_loop_out" -> { "channel_id" }
      [] name = "execute_rebalance" ->
             { "outgoing_channel_id", "incoming_channel_id", "amount_sats" }
      [] name = "propose_channel_opens" -> { "peers", "sat_per_vbyte" }
      [] name = "connect_peer" -> { "node_pubkey", "host_port" }
      [] name = "batch_connect_peers" -> { "peers" }
      [] name = "calculate_and_quote_loop_outs" -> { "channel_ids" }
      [] name = "get_node_uri" -> get_node_uri_params
      [] OTHER -> {}

\* the argument names a request for `name` may carry: exactly the
\* implementation's parameters, one of them missing, or one name too many
ArgKeySets(name) ==
    { ImplementationParams(name), ImplementationParams(name) \cup { "memo" } }
    \cup { ImplementationParams(name) \ { k } : k \in ImplementationParams(name) }

\* ------------------------------------------------------------------------
\* Text helpers: str.lower() and str.strip()
\* ------------------------------------------------------------------------

WHITESPACE == { " ", "\t", "\n" }

LowerChar(c) ==
    CASE c = "E" -> "e" [] c = "X" -> "x" [] c = "I" -> "i" [] c = "T" -> "t"
      [] c = "Q" -> "q" [] c = "U" -> "u" [] c = "Y" -> "y" [] c = "S" -> "s"
      [] c = "N" -> "n" [] c = "O" -> "o" [] OTHER -> c

Lower(s) == [i \in 1..Len(s) |-> LowerChar(s[i])]

RECURSIVE LStrip(_)
LStrip(s) ==
    IF s # <<>> /\ Head(s) \in WHITESPACE THEN LStrip(Tail(s)) ELSE s

RECURSIVE RStrip(_)
RStrip(s) ==
    IF s # <<>> /\ s[Len(s)] \in WHITESPACE
    THEN RStrip(SubSeq(s, 1, Len(s) - 1)) ELSE s

Strip(s) == RStrip(LStrip(s))

\* ------------------------------------------------------------------------
\* Pure helpers of the dispatcher
\* ------------------------------------------------------------------------

\* mutant: the calls are collected last to first
FunctionCalls_Reversed(parts) ==
    LET calls == SelectSeq(parts, LAMBDA p : p.function_call # "")
    IN  [i \in 1..Len(calls) |-> calls[Len(calls) + 1 - i].function_call]

\* the names of the function_call parts, in order (the text parts are shown)
FunctionCalls(parts) ==
    LET calls == SelectSeq(parts, LAMBDA p : p.function_call # "")
    IN  [i \in 1..Len(calls) |-> calls[i].function_call]

\* mutant: the break on an empty call list is missing
TickContinues_Always(calls) == TRUE

\* `if not function_calls_to_execute: break`
TickContinues(calls) == calls # <<>>

\* where the dispatcher blocks next: the confirmation prompt of call i, its
\* collaborator call, or, after the last call, the planner
GateOf(calls, i) ==
    IF i > Len(calls) THEN "send_results"
    ELSE IF calls[i] \in sensitive_tools THEN "confirm"
    ELSE "execute"

\* TUI.get_confirmation: TRUE, FALSE, or "again" when the prompt is repeated
ConfirmationAnswer(response) ==
    LET r == Lower(response)
    IN  IF r \in YES_ANSWERS THEN "yes"
        ELSE IF r \in NO_ANSWERS THEN "no"
        ELSE "again"

\* mutant: `execute = False` forgotten in the denial branch
ExecuteFlag_AlwaysTrue(answer) == TRUE

\* the `execute` flag after get_confirmation returned `answer`
ExecuteFlag(answer) == answer = "yes"

DeniedOutput(name) ==
    [error |-> <<"User denied execution of tool: ", name>>, status |-> ""]

\* mutant: the else branch leaves tool_output at its initial `{}`
UnknownOutput_Empty(name) == [error |-> <<>>, status |-> ""]

UnknownOutput(name) ==
    [error |-> <<"Unknown function requested by model: ", name>>, status |-> ""]

\* what a collaborator call can do: return an output of some serialized
\* length, or raise
CollaboratorOutcomes ==
    { [raised |-> FALSE, msg |-> <<>>, len |-> l] : l \in OutputLens }
    \cup { [raised |-> TRUE, msg |-> m, len |-> 0] : m \in ExceptionMessages }

\* mutant: the except clause swallows the exception without an error result
CaughtOutput_Swallowed(outcome) ==
    [error |-> <<>>, status |-> IF outcome.raised THEN "" ELSE "OK"]

\* try: tool_output = impl(**args)  except Exception as e: {"error": str(e)}
CaughtOutput(outcome) ==
    IF outcome.raised
    THEN [error |-> outcome.msg, status |-> ""]
    ELSE [error |-> <<>>, status |-> "OK"]

\* mutant: keyword arguments the implementation lacks are ignored
BindsArguments_ExtraIgnored(name, keys) == ImplementationParams(name) \subseteq keys

\* impl(**args) binds when every required parameter is supplied and no other
\* keyword is; otherwise Python raises TypeError before the body runs
BindsArguments(name, keys) == keys = ImplementationParams(name)

TypeErrorMessage == <<"TypeError: unexpected or missing keyword argument">>

\* the Part appended to tool_responses_parts; len is the length of its str()
ResponsePart(name, output, len) ==
    [name |-> name, response |-> output,
     len |-> IF output.error # <<>> THEN 120 ELSE len]

RECURSIVE SumLen(_)
SumLen(parts) ==
    IF parts = <<>> THEN 0 ELSE Head(parts).len + SumLen(Tail(parts))

\* len(str(tool_responses_parts)): "[" + ", ".join(...) + "]"
PayloadLength(parts) ==
    2 + SumLen(parts) + (IF Len(parts) > 1 THEN 2 * (Len(parts) - 1) ELSE 0)

\* mutant: the ceiling itself is already rejected
PayloadTooLarge_Inclusive(n) == n >= MAX_PAYLOAD_SIZE_CHARACTERS

PayloadTooLarge(n) == n > MAX_PAYLOAD_SIZE_CHARACTERS

OversizeError ==
    [name |-> "error_handler",
     response |-> [error |-> <<"Tool response payload is too large">>,
                   status |-> ""],
     len |-> 120]

\* the safety check for payload size
GuardPayload(parts) ==
    IF PayloadTooLarge(PayloadLength(parts)) THEN << OversizeError >> ELSE parts

\* mutant: a planner failure leaves the tick loop
AfterPlannerFailure_Stop(first) == "STOPPED"

\* where control goes when chat.send_message raises: `continue` of the tick
\* loop for the first call, end of the tick for a later call
AfterPlannerFailure(first) == IF first THEN "tick_start" ELSE "waiting"

\* mutant: the comparison is case-sensitive
IsExitCommand_CaseSensitive(message) == message \in EXIT_TOKENS

\* `current_user_message.lower() in ["exit", "quit"]`
IsExitCommand(message) == Lower(message) \in EXIT_TOKENS

\* ------------------------------------------------------------------------
\* State
\* ------------------------------------------------------------------------

VARIABLES
    pc,                         \* where main() is blocked
    current_user_message,
    current_response_parts,
    function_calls_to_execute,
    idx,                        \* position of the for loop over the calls
    confirmation,               \* answer obtained for call idx
    tool_responses_parts,
    sent,                       \* the message the planner is working on
    callLog,                    \* what happened to each call of this round
                                \* (args: the keywords bound, if any were)
    plannerFailed,              \* chat.send_message raised, no call since
    waited,                     \* select/sleep returned since the last call
    controlInput,               \* what the last select/readline produced
    stopCause                   \* why the while loop was left

\* state of the tools when one of them is examined on its own
VARIABLES
    toolCall,                   \* the call being made and its inputs
    toolResult,                 \* what the call returned
    swaps,                      \* the swaps the swap service knows
    loopOutRequests             \* the LoopOut requests sent to the service

\* state of analyze_peer_network while its loop runs
VARIABLES
    queue,                      \* the deque of (pub_key, depth) to look at
    visited_pubkeys,            \* the set visited_pubkeys
    discovered_nodes,           \* the records kept, in the order recorded
    expansions,                 \* the pub_keys added to visited_pubkeys,
                                \* in the order they were added
    _global_all_scored_nodes    \* the module's node-graph cache

\* state of the node as the channel-open and rebalance tools leave it
VARIABLES
    lndCalls                    \* the requests sent to lnd, in the order sent

\* state of the thread pool of get_top_and_filter_nodes
VARIABLES
    futures                     \* the per-peer calls given to executor.map

\* no call was given to a thread pool
NoFutures ==
    [submitted |-> FALSE, state |-> <<>>, result |-> <<>>, finished |-> <<>>]

bfsVars ==
    << queue, visited_pubkeys, discovered_nodes, expansions,
       _global_all_scored_nodes >>

\* the entry of one node in _global_all_scored_nodes: its score and its
\* stable inbound and outbound peers taken together
ScoredNode(score, peers) == [score |-> score, stable_peers |-> peers]

\* _global_all_scored_nodes before get_node_availability_data has run
NoScoredNodes == [n \in {} |-> ScoredNode(0, {})]

toolVars ==
    << toolCall, toolResult, swaps, loopOutRequests, bfsVars, lndCalls,
       futures >>

mainVars ==
    << pc, current_user_message, current_response_parts,
       function_calls_to_execute, idx, confirmation, tool_responses_parts,
       sent, callLog, plannerFailed, waited, controlInput, stopCause >>

vars == << mainVars, toolVars >>

NoCall == [tool |-> "none"]

NoResult == [status |-> "none"]

\* the analysis has not visited anything
NothingVisited ==
    /\ queue = <<>>
    /\ visited_pubkeys = {}
    /\ discovered_nodes = <<>>
    /\ expansions = <<>>

\* analyze_peer_network is not running and no node data was fetched
BfsIdle ==
    /\ NothingVisited
    /\ _global_all_scored_nodes = NoScoredNodes

\* no tool is running on its own
ToolsIdle ==
    /\ toolCall = NoCall
    /\ toolResult = NoResult
    /\ swaps = <<>>
    /\ loopOutRequests = <<>>
    /\ lndCalls = <<>>
    /\ futures = NoFutures
    /\ BfsIdle

NoMessage ==
    [kind |-> "none", first |-> FALSE, text |-> <<>>, parts |-> <<>>,
     afterFailure |-> FALSE, waited |-> FALSE]

NoInput == [ready |-> FALSE, line |-> <<>>]

\* the state main() starts from
MainInit ==
    /\ pc = "tick_start"
    /\ current_user_message = <<>>
    /\ current_response_parts = <<>>
    /\ function_calls_to_execute = <<>>
    /\ idx = 1
    /\ confirmation = "none"
    /\ tool_responses_parts = <<>>
    /\ sent = NoMessage
    /\ callLog = <<>>
    /\ plannerFailed = FALSE
    /\ waited = FALSE
    /\ controlInput = NoInput
    /\ stopCause = "none"

Init == MainInit /\ ToolsIdle

\* ------------------------------------------------------------------------
\* Steps of main()
\* ------------------------------------------------------------------------

\* top of `while True`: new chat, default instruction, first send_message
TickStart ==
    /\ pc = "tick_start"
    /\ current_user_message' = DEFAULT_INSTRUCTION
    /\ sent' = [kind |-> "text", first |-> TRUE,
                text |-> current_user_message', parts |-> <<>>,
                afterFailure |-> plannerFailed, waited |-> waited]
    /\ plannerFailed' = FALSE
    /\ waited' = FALSE
    /\ pc' = "awaiting_plan"
    /\ UNCHANGED << current_response_parts, function_calls_to_execute, idx,
                    confirmation, tool_responses_parts, callLog,
                    controlInput, stopCause >>
    /\ UNCHANGED toolVars

\* chat.send_message raises
PlannerRaises ==
    /\ pc = "awaiting_plan"
    /\ plannerFailed' = TRUE
    /\ pc' = AfterPlannerFailure(sent.first)
    /\ current_response_parts' =
           IF sent.first THEN current_response_parts ELSE <<>>
    /\ sent' = NoMessage
    /\ callLog' = <<>>
    /\ tool_responses_parts' = <<>>
    /\ controlInput' = NoInput
    /\ UNCHANGED << current_user_message, function_calls_to_execute, idx,
                    confirmation, waited, stopCause >>
    /\ UNCHANGED toolVars

\* chat.send_message returns a response
PlannerReturns ==
    /\ pc = "awaiting_plan"
    /\ pc' = "responded"
    /\ sent' = NoMessage
    /\ callLog' = <<>>
    /\ tool_responses_parts' = <<>>
    /\ controlInput' = NoInput
    /\ UNCHANGED << current_user_message, current_response_parts,
                    function_calls_to_execute, idx, confirmation,
                    plannerFailed, waited, stopCause >>
    /\ UNCHANGED toolVars

\* the response is read: usage_metadata may be missing, which raises at
\* `total_tokens_used += ...` into the outer `except Exception`; otherwise
\* the parts are split into function calls and text
ReadResponse ==
    /\ pc = "responded"
    /\ \E parts \in PartLists, usageOk \in BOOLEAN :
         IF usageOk
         THEN LET calls == FunctionCalls(parts)
              IN  /\ current_response_parts' = parts
                  /\ function_calls_to_execute' = calls
                  /\ idx' = 1
                  /\ pc' = IF TickContinues(calls)
                           THEN GateOf(calls, 1) ELSE "waiting"
         ELSE /\ pc' = "sleep"
              /\ UNCHANGED << current_response_parts,
                              function_calls_to_execute, idx >>
    /\ UNCHANGED << current_user_message, confirmation,
                    tool_responses_parts, sent, callLog, plannerFailed,
                    waited, controlInput, stopCause >>
    /\ UNCHANGED toolVars

\* the end of one iteration of `for function_call in ...`
FinishCall(entry) ==
    /\ callLog' = Append(callLog, entry)
    /\ tool_responses_parts' = Append(tool_responses_parts, entry.part)
    /\ idx' = idx + 1
    /\ confirmation' = "none"
    /\ pc' = GateOf(function_calls_to_execute, idx + 1)

\* tui.get_confirmation for a sensitive tool
GetConfirmation ==
    /\ pc = "confirm"
    /\ \E response \in ConfirmInputs :
         LET name == function_calls_to_execute[idx]
             answer == ConfirmationAnswer(response)
         IN  IF answer = "again"
             THEN UNCHANGED << pc, confirmation, callLog,
                               tool_responses_parts, idx >>
             ELSE IF ExecuteFlag(answer)
             THEN /\ pc' = "execute"
                  /\ confirmation' = answer
                  /\ UNCHANGED << callLog, tool_responses_parts, idx >>
             ELSE FinishCall(
                      [name |-> name, confirmation |-> answer,
                       args |-> {}, invoked |-> FALSE, outcome |-> "denied",
                       exception |-> <<>>,
                       part |-> ResponsePart(name, DeniedOutput(name), 0)])
    /\ UNCHANGED << current_user_message, current_response_parts,
                    function_calls_to_execute, sent, plannerFailed, waited,
                    controlInput, stopCause >>
    /\ UNCHANGED toolVars

\* `if execute:` look the name up and call the collaborator
ExecuteTool ==
    /\ pc = "execute"
    /\ LET name == function_calls_to_execute[idx]
       IN  IF name \in tool_implementations
           THEN \E keys \in ArgKeySets(name) :
                  IF BindsArguments(name, keys)
                  THEN \E outcome \in CollaboratorOutcomes :
                         FinishCall(
                             [name |-> name, confirmation |-> confirmation,
                              args |-> keys, invoked |-> TRUE,
                              outcome |-> IF outcome.raised THEN "raised"
                                          ELSE "returned",
                              exception |-> outcome.msg,
                              part |-> ResponsePart(name, CaughtOutput(outcome),
                                                    outcome.len)])
                  ELSE FinishCall(
                           [name |-> name, confirmation |-> confirmation,
                            args |-> keys, invoked |-> FALSE,
                            outcome |-> "mismatch",
                            exception |-> TypeErrorMessage,
                            part |-> ResponsePart(
                                         name,
                                         CaughtOutput([raised |-> TRUE,
                                                       msg |-> TypeErrorMessage,
                                                       len |-> 0]),
                                         0)])
           ELSE FinishCall(
                    [name |-> name, confirmation |-> confirmation,
                     args |-> {}, invoked |-> FALSE, outcome |-> "unknown",
                     exception |-> <<>>,
                     part |-> ResponsePart(name, UnknownOutput(name), 0)])
    /\ UNCHANGED << current_user_message, current_response_parts,
                    function_calls_to_execute, sent, plannerFailed, waited,
                    controlInput, stopCause >>
    /\ UNCHANGED toolVars

\* payload guard, then chat.send_message(tool_responses_parts)
SendToolResponses ==
    /\ pc = "send_results"
    /\ tool_responses_parts' = GuardPayload(tool_responses_parts)
    /\ sent' = [kind |-> "results", first |-> FALSE, text |-> <<>>,
                parts |-> tool_responses_parts',
                afterFailure |-> plannerFailed, waited |-> waited]
    /\ plannerFailed' = FALSE
    /\ waited' = FALSE
    /\ pc' = "awaiting_plan"
    /\ UNCHANGED << current_user_message, current_response_parts,
                    function_calls_to_execute, idx, confirmation, callLog,
                    controlInput, stopCause >>
    /\ UNCHANGED toolVars

\* select.select times out after TICK_INTERVAL_SECONDS
WaitTimeout ==
    /\ pc = "waiting"
    /\ controlInput' = NoInput
    /\ waited' = TRUE
    /\ pc' = "tick_start"
    /\ UNCHANGED << current_user_message, current_response_parts,
                    function_calls_to_execute, idx, confirmation,
                    tool_responses_parts, sent, callLog, plannerFailed,
                    stopCause >>
    /\ UNCHANGED toolVars

\* select.select reports stdin ready and a line is read
ReadLine ==
    /\ pc = "waiting"
    /\ \E line \in ControlLines :
         /\ controlInput' = [ready |-> TRUE, line |-> line]
         /\ current_user_message' = Strip(line)
         /\ IF IsExitCommand(current_user_message')
            THEN pc' = "STOPPED" /\ stopCause' = "exit_token"
            ELSE pc' = "tick_start" /\ UNCHANGED stopCause
    /\ waited' = TRUE
    /\ UNCHANGED << current_response_parts, function_calls_to_execute, idx,
                    confirmation, tool_responses_parts, sent, callLog,
                    plannerFailed >>
    /\ UNCHANGED toolVars

\* outer `except Exception`: time.sleep(TICK_INTERVAL_SECONDS), next tick
Sleep ==
    /\ pc = "sleep"
    /\ waited' = TRUE
    /\ pc' = "tick_start"
    /\ UNCHANGED << current_user_message, current_response_parts,
                    function_calls_to_execute, idx, confirmation,
                    tool_responses_parts, sent, callLog, plannerFailed,
                    controlInput, stopCause >>
    /\ UNCHANGED toolVars

\* the operator presses Ctrl-C
KeyboardInterrupt ==
    /\ pc # "STOPPED"
    /\ pc' = "STOPPED"
    /\ stopCause' = "interrupt"
    /\ UNCHANGED << current_user_message, current_response_parts,
                    function_calls_to_execute, idx, confirmation,
                    tool_responses_parts, sent, callLog, plannerFailed,
                    waited, controlInput >>
    /\ UNCHANGED toolVars

Next ==
    \/ TickStart
    \/ PlannerRaises
    \/ PlannerReturns
    \/ ReadResponse
    \/ GetConfirmation
    \/ ExecuteTool
    \/ SendToolResponses
    \/ WaitTimeout
    \/ ReadLine
    \/ Sleep
    \/ KeyboardInterrupt

Spec == Init /\ [][Next]_vars

\* every step of main() is eventually taken once the call it blocks on
\* returns; the operator's interrupt is never forced
FairSpec ==
    /\ Spec
    /\ WF_vars(TickStart)
    /\ WF_vars(PlannerRaises \/ PlannerReturns)
    /\ WF_vars(ReadResponse)
    /\ WF_vars(GetConfirmation)
    /\ WF_vars(ExecuteTool)
    /\ WF_vars(SendToolResponses)
    /\ WF_vars(WaitTimeout \/ ReadLine)
    /\ WF_vars(Sleep)

TypeOK ==
    /\ pc \in { "tick_start", "awaiting_plan", "responded", "confirm", "execute",
                "send_results", "waiting", "sleep", "STOPPED" }
    /\ idx \in 1..(MaxParts + 1)
    /\ confirmation \in { "none", "yes", "no" }
    /\ stopCause \in { "none", "interrupt", "exit_token" }
    /\ Len(callLog) <= MaxParts

\* ------------------------------------------------------------------------
\* sanitize_arguments (src/main.py)
\* ------------------------------------------------------------------------

\* most operations in one execute_channel_opens request, most items in a list
MaxOperations == 2

\* An argument value: t is "int", "float", "str", "list" or "obj"; a float
\* holds n halves (n = 5 is 2.5); a list holds its items, an object its
\* fields, each under its key.
Num(key, t, n) == [key |-> key, t |-> t, n |-> n, items |-> <<>>]
Str(key) == [key |-> key, t |-> "str", n |-> 0, items |-> <<>>]
List(key, items) == [key |-> key, t |-> "list", n |-> 0, items |-> items]
Obj(key, fields) == [key |-> key, t |-> "obj", n |-> 0, items |-> fields]

\* A schema: its type, the schemas of its properties, and the schema of its
\* items (a sequence of at most one).
IntegerSchema(key) ==
    [key |-> key, type |-> "integer", properties |-> <<>>, items |-> <<>>]
StringSchema(key) ==
    [key |-> key, type |-> "string", properties |-> <<>>, items |-> <<>>]
ArraySchema(key, itemSchema) ==
    [key |-> key, type |-> "array", properties |-> <<>>,
     items |-> << itemSchema >>]
ObjectSchema(key, props) ==
    [key |-> key, type |-> "object", properties |-> props, items |-> <<>>]

\* src/declarations.py: execute_rebalance_declaration.parameters
execute_rebalance_parameters ==
    ObjectSchema("", << StringSchema("outgoing_channel_id"),
                        StringSchema("incoming_channel_id"),
                        IntegerSchema("amount_sats") >>)

\* src/declarations.py: execute_channel_opens_declaration.parameters
execute_channel_opens_parameters ==
    ObjectSchema("",
      << ArraySchema("operations",
           ObjectSchema("",
             << StringSchema("type"),
                StringSchema("node_pubkey"),
                IntegerSchema("local_funding_amount_sat"),
                IntegerSchema("sat_per_vbyte"),
                ArraySchema("channels",
                  ObjectSchema("",
                    << StringSchema("node_pubkey"),
                       IntegerSchema("local_funding_amount_sat") >>)) >>)) >>)

\* a schema with an array of integers, the shape the list branch of
\* sanitize_arguments coerces
integer_array_parameters ==
    ObjectSchema("", << ArraySchema("amounts", IntegerSchema("")) >>)

\* the declarations sanitize_arguments is examined with
DeclaredNames ==
    { "execute_rebalance", "execute_channel_opens", "integer_array" }

\* tool_declarations[name].parameters
DeclaredParameters(name) ==
    CASE name = "execute_rebalance" -> execute_rebalance_parameters
      [] name = "execute_channel_opens" -> execute_channel_opens_parameters
      [] name = "integer_array" -> integer_array_parameters

\* the numbers the planner may send: 7, 7.0, 2.5 and -2.5
Numbers == { <<"int", 7>>, <<"float", 14>>, <<"float", 5>>, <<"float", -5>> }

NumberAt(key) == { Num(key, x[1], x[2]) : x \in Numbers }

Operations ==
    { Obj("", << Str("type"), Str("node_pubkey"), a, b >>) :
        a \in NumberAt("local_funding_amount_sat"),
        b \in NumberAt("sat_per_vbyte") }

\* the arguments a request for `name` may carry
ArgsFor(name) ==
    CASE name = "execute_rebalance" ->
             { Obj("", << Str("outgoing_channel_id"),
                          Str("incoming_channel_id"), a >>) :
                 a \in NumberAt("amount_sats") }
             \cup { Obj("", << Str("outgoing_channel_id"), a, b >>) :
                      a \in NumberAt("amount_sats"),
                      b \in NumberAt("fee_limit") }
      [] name = "execute_channel_opens" ->
             { Obj("", << List("operations", ops) >>) :
                 ops \in SeqsUpTo(Operations, MaxOperations) }
      [] name = "integer_array" ->
             { Obj("", << List("amounts", xs) >>) :
                 xs \in SeqsUpTo(NumberAt(""), MaxOperations) }
      [] OTHER ->
             { Obj("", << a >>) : a \in NumberAt("amount") }

\* int(value) of a float: truncation toward zero
IntOfFloat(n) == IF n >= 0 THEN n \div 2 ELSE -((-n) \div 2)

\* `int(v) if isinstance(v, float) else v`
CastFloat(v) == IF v.t = "float" THEN [v EXCEPT !.t = "int", !.n = IntOfFloat(v.n)] ELSE v

\* schema_properties[key], or nothing when the key is not declared
PropertyOf(schema, key) ==
    SelectSeq(schema.properties, LAMBDA q : q.key = key)

\* the body of the loop over args.items()
SanitizeEntry(schema, value) ==
    IF schema.type = "integer" /\ value.t = "float"
    THEN CastFloat(value)
    ELSE IF schema.type = "array" /\ value.t = "list"
    THEN IF schema.items # <<>> /\ schema.items[1].type = "integer"
         THEN [value EXCEPT !.items =
                  [i \in 1..Len(value.items) |-> CastFloat(value.items[i])]]
         ELSE value
    ELSE value

\* sanitize_arguments(tool_declaration, args), parameters being those of the
\* declaration
sanitize_arguments(parameters, args) ==
    [args EXCEPT !.items =
        [i \in 1..Len(args.items) |->
            LET value == args.items[i]
                found == PropertyOf(parameters, value.key)
            IN  IF found = <<>> THEN value
                ELSE SanitizeEntry(found[1], value)]]

\* `if function_name in tool_declarations:` sanitize, else leave the args
SanitizedArgs(name, args) ==
    IF name \in DeclaredNames
    THEN sanitize_arguments(DeclaredParameters(name), args)
    ELSE args

\* a request is about to have its arguments sanitized; drain_wallet has no
\* declaration
SanitizeInit ==
    /\ MainInit
    /\ \E name \in DeclaredNames \cup { "drain_wallet" } :
         \E args \in ArgsFor(name) :
           toolCall = [tool |-> "sanitize_arguments", name |-> name,
                       args |-> args]
    /\ toolResult = NoResult
    /\ swaps = <<>>
    /\ loopOutRequests = <<>>
    /\ lndCalls = <<>>
    /\ futures = NoFutures
    /\ BfsIdle

\* the request's arguments are sanitized
SanitizeArguments ==
    /\ toolCall.tool = "sanitize_arguments"
    /\ toolResult = NoResult
    /\ toolResult' = [status |-> "returned",
                      args |-> SanitizedArgs(toolCall.name, toolCall.args)]
    /\ UNCHANGED << mainVars, futures, lndCalls, bfsVars, toolCall, swaps, loopOutRequests >>

SanitizeNext == SanitizeArguments

SanitizeSpec == SanitizeInit /\ [][SanitizeNext]_vars

\* ------------------------------------------------------------------------
\* LoopClient (src/tools/loop_tools.py)
\* ------------------------------------------------------------------------

\* most swaps the swap service holds, most LoopOut requests sent
MaxSwaps == 12
MaxRequests == 2

\* list_loop_out_swaps keeps swaps[:10]
LIST_LIMIT == 10

\* min(loop_out_amount, 10000000)
MAX_LOOP_OUT_AMOUNT == 10000000

\* max_prepay_amt=30000 and sweep_conf_target=144 of the LoopOutRequest
MAX_PREPAY_AMT == 30000
SWEEP_CONF_TARGET == 144

\* the channels initiate_loop_out is asked about
ChannelIds == { "101", "102" }

\* a channel only other users of the swap service loop out of
OTHER_CHANNEL == "900"

\* what list_lnd_channels may report for a channel: capacity, local_balance
ChannelViews ==
    { [capacity |-> 20000000, local_balance |-> 20000000],
      [capacity |-> 100000, local_balance |-> 80000],
      [capacity |-> 100000, local_balance |-> 50000] }

\* all_channels.get(str(channel_id)) when the id is not in the list
ChannelNotFound == [capacity |-> -1, local_balance |-> -1]

RECURSIVE Reverse(_)
Reverse(s) == IF s = <<>> THEN <<>> ELSE Append(Reverse(Tail(s)), Head(s))

\* list_loop_out_swaps: an error without a stub or when ListSwaps fails,
\* else the swaps started in the last 24 hours, most recent first, the first
\* 10 of them; `all` is in order of initiation_time
list_loop_out_swaps(all, stubOk, rpcOk) ==
    IF ~stubOk \/ ~rpcOk THEN [status |-> "ERROR", swaps |-> <<>>]
    ELSE LET sorted == Reverse(SelectSeq(all, LAMBDA w : w.recent))
         IN  [status |-> "OK",
              swaps |-> SubSeq(sorted, 1,
                               IF Len(sorted) < LIST_LIMIT THEN Len(sorted)
                               ELSE LIST_LIMIT)]

Unresolved(swap) == swap.state \notin { "SUCCESS", "FAILED" }

\* the guard of initiate_loop_out: a listed swap that is neither SUCCESS nor
\* FAILED has the channel in its outgoing_chan_set
PendingSwapListed(listing, channel_id) ==
    /\ listing.status = "OK"
    /\ \E i \in 1..Len(listing.swaps) :
         /\ Unresolved(listing.swaps[i])
         /\ channel_id \in listing.swaps[i].outgoing_chan_set

\* amounts of the model for which the double product amount * 0.0021 falls
\* just below the integer 21 * amount / 10000
FloatShortfallAmounts ==
    { 30000, 60000, 110000, 120000, 220000, 230000, 240000, 440000, 450000,
      460000, 470000, 480000 }

\* int(loop_out_amount * 0.0021)
max_swap_fee(amt) ==
    ((21 * amt) \div 10000) - (IF amt \in FloatShortfallAmounts THEN 1 ELSE 0)

\* int(loop_out_amount * 0.0035) + 1
max_swap_routing_fee(amt) == ((35 * amt) \div 10000) + 1

\* mutant: the prepay routing ceiling follows the swap amount
max_prepay_routing_fee_Scaled(amt) == ((3 * amt) \div 1000) + 10

\* int(30000 * 0.003) + 10
max_prepay_routing_fee(amt) == ((3 * 30000) \div 1000) + 10

\* min(local_balance - capacity // 2, 10000000)
LoopOutAmount(channel) ==
    LET raw == channel.local_balance - (channel.capacity \div 2)
    IN  IF raw < MAX_LOOP_OUT_AMOUNT THEN raw ELSE MAX_LOOP_OUT_AMOUNT

LoopOutRequest(channel_id, amt) ==
    [amt |-> amt, outgoing_chan_set |-> { channel_id },
     sweep_conf_target |-> SWEEP_CONF_TARGET,
     max_swap_fee |-> max_swap_fee(amt),
     max_prepay_amt |-> MAX_PREPAY_AMT,
     max_swap_routing_fee |-> max_swap_routing_fee(amt),
     max_prepay_routing_fee |-> max_prepay_routing_fee(amt)]

\* mutant: the pending-swap check is skipped
PendingSwapRejects_Never(listing, channel_id) == FALSE

\* `if pending_swaps_response.get("status") == "OK": for swap in ...: return`
PendingSwapRejects(listing, channel_id) ==
    PendingSwapListed(listing, channel_id)

\* initiate_loop_out up to the LoopOut call: the result it returns early
\* with, or the request it sends
initiate_loop_out(stubOk, listing, channelsOk, channel, channel_id) ==
    IF ~stubOk
    THEN [status |-> "ERROR", message |-> "Loop gRPC client not initialized.",
          request |-> <<>>]
    ELSE IF PendingSwapRejects(listing, channel_id)
    THEN [status |-> "ERROR",
          message |-> "Channel is already part of a pending Loop Out swap.",
          request |-> <<>>]
    ELSE IF ~channelsOk
    THEN [status |-> "ERROR", message |-> "channels_response",
          request |-> <<>>]
    ELSE IF channel = ChannelNotFound
    THEN [status |-> "ERROR", message |-> "Channel not found.",
          request |-> <<>>]
    ELSE IF LoopOutAmount(channel) <= 0
    THEN [status |-> "ERROR", message |-> "Channel does not need a loop out.",
          request |-> <<>>]
    ELSE [status |-> "SEND", message |-> "",
          request |-> << LoopOutRequest(channel_id, LoopOutAmount(channel)) >>]

\* what the collaborators of one call do: whether there is a stub, whether
\* ListSwaps and list_lnd_channels succeed, what the channel looks like and
\* whether LoopOut succeeds; an outcome the call never gets to is fixed
LoopEnvironments ==
    { [stubOk |-> FALSE, listOk |-> TRUE, channelsOk |-> TRUE,
       channel |-> ChannelNotFound, rpcOk |-> TRUE] }
    \cup { [stubOk |-> TRUE, listOk |-> l, channelsOk |-> FALSE,
            channel |-> ChannelNotFound, rpcOk |-> TRUE] : l \in BOOLEAN }
    \cup { [stubOk |-> TRUE, listOk |-> l, channelsOk |-> TRUE,
            channel |-> c, rpcOk |-> TRUE] :
              l \in BOOLEAN, c \in ChannelViews }
    \cup { [stubOk |-> TRUE, listOk |-> l, channelsOk |-> TRUE,
            channel |-> c, rpcOk |-> FALSE] :
              l \in BOOLEAN,
              c \in { v \in ChannelViews : LoopOutAmount(v) > 0 } }
    \cup { [stubOk |-> TRUE, listOk |-> l, channelsOk |-> TRUE,
            channel |-> ChannelNotFound, rpcOk |-> TRUE] : l \in BOOLEAN }

\* one call of initiate_loop_out; when the request is sent, the service
\* either registers the swap or the call fails with an RpcError
InitiateLoopOut ==
    /\ Len(loopOutRequests) < MaxRequests
    /\ Len(swaps) < MaxSwaps
    /\ \E channel_id \in ChannelIds, env \in LoopEnvironments :
         LET stubOk == env.stubOk
             rpcOk == env.rpcOk
             listing == list_loop_out_swaps(swaps, stubOk, env.listOk)
             r == initiate_loop_out(stubOk, listing, env.channelsOk,
                                    env.channel, channel_id)
         IN  /\ toolCall' = [tool |-> "initiate_loop_out",
                             channel_id |-> channel_id, listing |-> listing]
             /\ IF r.status = "SEND"
                THEN /\ loopOutRequests' = loopOutRequests \o r.request
                     /\ IF rpcOk
                        THEN /\ swaps' = Append(swaps,
                                   [outgoing_chan_set |-> { channel_id },
                                    state |-> "INITIATED", recent |-> TRUE])
                             /\ toolResult' = [status |-> "OK",
                                               message |-> ""]
                        ELSE /\ swaps' = swaps
                             /\ toolResult' =
                                    [status |-> "ERROR",
                                     message |-> "gRPC error initiating Loop Out"]
                ELSE /\ toolResult' = [status |-> r.status,
                                       message |-> r.message]
                     /\ UNCHANGED << swaps, loopOutRequests >>
    /\ UNCHANGED << mainVars, futures, lndCalls, bfsVars >>

\* a swap of one of the channels succeeds or fails
SwapResolves ==
    /\ \E i \in 1..Len(swaps), final \in { "SUCCESS", "FAILED" } :
         /\ Unresolved(swaps[i])
         /\ swaps[i].outgoing_chan_set \subseteq ChannelIds
         /\ swaps' = [swaps EXCEPT ![i].state = final]
    /\ UNCHANGED << mainVars, futures, lndCalls, bfsVars, toolCall, toolResult, loopOutRequests >>

\* 24 hours pass: every swap known so far leaves the listing window
DayPasses ==
    /\ \E i \in 1..Len(swaps) : swaps[i].recent
    /\ swaps' = [i \in 1..Len(swaps) |-> [swaps[i] EXCEPT !.recent = FALSE]]
    /\ UNCHANGED << mainVars, futures, lndCalls, bfsVars, toolCall, toolResult, loopOutRequests >>

\* other users of the swap service start LIST_LIMIT swaps of their own
OtherSwaps ==
    /\ Len(swaps) + LIST_LIMIT <= MaxSwaps
    /\ swaps' = swaps \o
           [i \in 1..LIST_LIMIT |->
               [outgoing_chan_set |-> { OTHER_CHANNEL },
                state |-> "INITIATED", recent |-> TRUE]]
    /\ UNCHANGED << mainVars, futures, lndCalls, bfsVars, toolCall, toolResult, loopOutRequests >>

LoopNext ==
    \/ InitiateLoopOut
    \/ SwapResolves
    \/ DayPasses
    \/ OtherSwaps

LoopSpec == Init /\ [][LoopNext]_vars

\* ------------------------------------------------------------------------
\* calculate_and_quote_loop_outs (src/tools/fee_management_tools.py)
\* ------------------------------------------------------------------------

\* most channel ids in one request
MaxQuoteIds == 2

\* the ids a request may name; "404" is in no channel list
QuoteIds == { "101", "102", "404" }

\* what list_lnd_channels may report for a channel the node has
QuoteViews ==
    { [capacity |-> 10000000, local_balance |-> 8000000],
      [capacity |-> 20000000, local_balance |-> 20000000],
      [capacity |-> 30000000, local_balance |-> 30000000],
      [capacity |-> 10000000, local_balance |-> 4000000],
      [capacity |-> 100001, local_balance |-> 50000],
      [capacity |-> 100001, local_balance |-> 50001],
      [capacity |-> 0, local_balance |-> 5],
      [capacity |-> 100, local_balance |-> -1] }

\* what _get_loop_out_quote may return: a quote, or an error (no stub, or
\* an RpcError)
QuoteOutcomes == { "OK", "ERROR" }

NoQuote == "None"
NoAmount == -1

\* all_channels.get(str(channel_id))
LookupChannel(channels, channel_id) ==
    IF channel_id \in DOMAIN channels THEN channels[channel_id]
    ELSE ChannelNotFound

\* mutant: the cap of 10000000 is missing
QuoteAmount_Uncapped(channel) ==
    channel.local_balance - (channel.capacity \div 2)

\* min(int(local_balance - capacity // 2), 10000000)
QuoteAmount(channel) ==
    LET raw == channel.local_balance - (channel.capacity \div 2)
    IN  IF raw < MAX_LOOP_OUT_AMOUNT THEN raw ELSE MAX_LOOP_OUT_AMOUNT

\* the body of `for channel_id in channel_ids`: the entry appended for one
\* id; quoted says whether _get_loop_out_quote was called for it
QuoteEntry(channels, channel_id, outcome) ==
    LET channel == LookupChannel(channels, channel_id)
    IN  IF channel = ChannelNotFound
        THEN [channel_id |-> channel_id, status |-> "ERROR",
              loop_out_amount_sat |-> NoAmount, quote |-> NoQuote,
              quoted |-> FALSE, message |-> "Channel not found."]
        ELSE IF channel.local_balance < 0 \/ channel.capacity <= 0
        THEN [channel_id |-> channel_id, status |-> "ERROR",
              loop_out_amount_sat |-> NoAmount, quote |-> NoQuote,
              quoted |-> FALSE,
              message |-> "Invalid local_balance or capacity found for channel."]
        ELSE IF QuoteAmount(channel) <= 0
        THEN [channel_id |-> channel_id, status |-> "OK",
              loop_out_amount_sat |-> 0, quote |-> NoQuote,
              quoted |-> FALSE,
              message |-> "Channel is already balanced or has inbound liquidity."]
        ELSE [channel_id |-> channel_id, status |-> "OK",
              loop_out_amount_sat |-> QuoteAmount(channel),
              quote |-> outcome, quoted |-> TRUE, message |-> ""]

RECURSIVE ChannelQuotes_StopAtError(_, _, _)
\* mutant: the first entry that is an error ends the loop
ChannelQuotes_StopAtError(channels, channel_ids, outcomes) ==
    IF channel_ids = <<>> THEN <<>>
    ELSE LET e == QuoteEntry(channels, Head(channel_ids), Head(outcomes))
         IN  IF e.status = "ERROR" \/ e.quote = "ERROR" THEN << e >>
             ELSE << e >> \o ChannelQuotes_StopAtError(
                                 channels, Tail(channel_ids), Tail(outcomes))

RECURSIVE ChannelQuotes(_, _, _)
\* the loop over channel_ids: `results`, one append per iteration
ChannelQuotes(channels, channel_ids, outcomes) ==
    IF channel_ids = <<>> THEN <<>>
    ELSE << QuoteEntry(channels, Head(channel_ids), Head(outcomes)) >>
         \o ChannelQuotes(channels, Tail(channel_ids), Tail(outcomes))

\* calculate_and_quote_loop_outs: the channels response is returned as it is
\* when it is not OK
calculate_and_quote_loop_outs(channelsOk, channels, channel_ids, outcomes) ==
    IF ~channelsOk
    THEN [status |-> "ERROR", channel_quotes |-> <<>>]
    ELSE [status |-> "OK",
          channel_quotes |-> ChannelQuotes(channels, channel_ids, outcomes)]

\* a call of calculate_and_quote_loop_outs is about to be made: the ids
\* requested, what list_lnd_channels returns, and outcomes[i], what the quote
\* service does if it is asked during iteration i
QuoteInit ==
    /\ MainInit
    /\ \E channel_ids \in SeqsUpTo(QuoteIds, MaxQuoteIds),
          channels \in [{ "101", "102" } -> QuoteViews],
          channelsOk \in BOOLEAN :
         \E outcomes \in [1..Len(channel_ids) -> QuoteOutcomes] :
           toolCall = [tool |-> "calculate_and_quote_loop_outs",
                       channel_ids |-> channel_ids, channelsOk |-> channelsOk,
                       channels |-> channels, outcomes |-> outcomes]
    /\ toolResult = NoResult
    /\ swaps = <<>>
    /\ loopOutRequests = <<>>
    /\ lndCalls = <<>>
    /\ futures = NoFutures
    /\ BfsIdle

\* the call is made
CalculateAndQuote ==
    /\ toolCall.tool = "calculate_and_quote_loop_outs"
    /\ toolResult = NoResult
    /\ toolResult' = calculate_and_quote_loop_outs(
                         toolCall.channelsOk, toolCall.channels,
                         toolCall.channel_ids, toolCall.outcomes)
    /\ UNCHANGED << mainVars, futures, lndCalls, bfsVars, toolCall, swaps, loopOutRequests >>

QuoteNext == CalculateAndQuote

QuoteSpec == QuoteInit /\ [][QuoteNext]_vars

\* ------------------------------------------------------------------------
\* analyze_channel_liquidity_flow (src/tools/fee_management_tools.py)
\* ------------------------------------------------------------------------

\* most forwarding events in the 7-day history
MaxEvents == 2

\* the channels list_lnd_channels returns: 101 is 90% local, 102 is 80%
\* local, 103 is the channel with the Loop node, 104 forwards nothing
FlowChannels ==
    << [chan_id |-> "101", remote_pubkey |-> "peer_a",
        capacity |-> 100000, local_balance |-> 90000],
       [chan_id |-> "102", remote_pubkey |-> "peer_b",
        capacity |-> 100000, local_balance |-> 80000],
       [chan_id |-> "103", remote_pubkey |-> "LOOP_NODE_PUBKEY",
        capacity |-> 100000, local_balance |-> 95000],
       [chan_id |-> "104", remote_pubkey |-> "peer_c",
        capacity |-> 0, local_balance |-> 0] >>

\* event.get("chan_id_in") of an event that names no inbound channel
NoChannel == "None"

\* flow["last_forward_time"] of a channel no event has touched (None); the
\* event times are the positive timestamps below
NoTime == 0

\* the timestamps (timestamp_ns) the events of the history carry
Timestamps == { 1, 2 }

\* the forwarding events lnd may report: a payment that came in on one
\* channel and left on another, with the amounts in msat and the time
ForwardingEvents ==
    { [chan_id_in |-> c[1], chan_id_out |-> c[2],
       amt_in_msat |-> a[1], amt_out_msat |-> a[2], timestamp_ns |-> t] :
        c \in { <<"101", "102">>, <<"102", "101">>, <<"103", "101">>,
                <<NoChannel, "102">> },
        a \in { <<0, 0>>, <<10, 10>>, <<11, 10>>, <<12, 10>> },
        t \in Timestamps }

\* which of the three collaborator calls fails, if any
FlowFailures == { "none", "swaps", "history", "channels" }

RECURSIVE InboundMsat_Outgoing(_, _)
\* mutant: the inbound amount goes to the bucket of the outbound channel
InboundMsat_Outgoing(events, c) ==
    IF events = <<>> THEN 0
    ELSE (IF Head(events).chan_id_out # NoChannel /\ Head(events).chan_id_out = c
          THEN Head(events).amt_in_msat ELSE 0)
         + InboundMsat_Outgoing(Tail(events), c)

RECURSIVE InboundMsat(_, _)
\* flow_by_channel[c]["inbound_msat"] after the loop over the events
InboundMsat(events, c) ==
    IF events = <<>> THEN 0
    ELSE (IF Head(events).chan_id_in # NoChannel /\ Head(events).chan_id_in = c
          THEN Head(events).amt_in_msat ELSE 0)
         + InboundMsat(Tail(events), c)

RECURSIVE OutboundMsat(_, _)
\* flow_by_channel[c]["outbound_msat"] after the loop over the events
OutboundMsat(events, c) ==
    IF events = <<>> THEN 0
    ELSE (IF Head(events).chan_id_out # NoChannel /\ Head(events).chan_id_out = c
          THEN Head(events).amt_out_msat ELSE 0)
         + OutboundMsat(Tail(events), c)

\* the event touches the channel, as its inbound or its outbound channel
Touches(event, c) ==
    \/ event.chan_id_in # NoChannel /\ event.chan_id_in = c
    \/ event.chan_id_out # NoChannel /\ event.chan_id_out = c

RECURSIVE LastForwardTime_LastEvent(_, _, _)
\* mutant: the time of the last listed event wins, not the latest time
LastForwardTime_LastEvent(events, c, t) ==
    IF events = <<>> THEN t
    ELSE LastForwardTime_LastEvent(Tail(events), c,
             IF Touches(Head(events), c) THEN Head(events).timestamp_ns ELSE t)

RECURSIVE LastForwardTime(_, _, _)
\* flow_by_channel[c]["last_forward_time"] after the loop over the events,
\* t being its value before: an event that touches the channel replaces it
\* when there is none yet or when the event is later
LastForwardTime(events, c, t) ==
    IF events = <<>> THEN t
    ELSE LastForwardTime(Tail(events), c,
             IF /\ Touches(Head(events), c)
                /\ (t = NoTime \/ Head(events).timestamp_ns > t)
             THEN Head(events).timestamp_ns ELSE t)

\* f"{balance_ratio:.2%}": local_balance / capacity as a percentage with
\* two decimals, given here as the number of hundredths of a percent the
\* string shows ("90.00%" is 9000); 0 when the capacity is 0
BalanceRatio(channel) ==
    IF channel.capacity > 0
    THEN (2 * 10000 * channel.local_balance + channel.capacity)
             \div (2 * channel.capacity)
    ELSE 0

\* mutant: the 10% margin is missing
LiquidityTrend_NoMargin(inbound_flow, outbound_flow) ==
    IF inbound_flow > outbound_flow THEN "inbound"
    ELSE IF outbound_flow > inbound_flow THEN "outbound"
    ELSE IF inbound_flow > 0 \/ outbound_flow > 0 THEN "balanced"
    ELSE "stagnant"

\* the if/elif chain on the flows; x > y * 1.1 is 10 * x > 11 * y for the
\* whole msat amounts compared here
LiquidityTrend(inbound_flow, outbound_flow) ==
    IF 10 * inbound_flow > 11 * outbound_flow THEN "inbound"
    ELSE IF 10 * outbound_flow > 11 * inbound_flow THEN "outbound"
    ELSE IF inbound_flow > 0 \/ outbound_flow > 0 THEN "balanced"
    ELSE "stagnant"

\* _is_loop_out_candidate: more than 80% local and in no pending swap
IsLoopOutCandidate(channel, pending) ==
    /\ channel.capacity # 0
    /\ ~(10 * channel.local_balance <= 8 * channel.capacity)
    /\ channel.chan_id \notin pending

\* the record appended to analysis_results for one channel
ChannelAnalysis(channel, events, pending) ==
    [channel_id |-> channel.chan_id,
     local_balance |-> channel.local_balance,
     capacity |-> channel.capacity,
     is_loop_out_candidate |-> IsLoopOutCandidate(channel, pending),
     liquidity_trend |-> LiquidityTrend(InboundMsat(events, channel.chan_id),
                                        OutboundMsat(events, channel.chan_id)),
     inbound_msat_7d |-> InboundMsat(events, channel.chan_id),
     outbound_msat_7d |-> OutboundMsat(events, channel.chan_id),
     balance_ratio |-> BalanceRatio(channel),
     last_forward_time |-> LastForwardTime(events, channel.chan_id, NoTime)]

\* analyze_channel_liquidity_flow: a failed collaborator response is returned
\* as it is; else one record per channel that is not with the Loop node
analyze_channel_liquidity_flow(failure, channels, events, pending) ==
    IF failure # "none"
    THEN [status |-> "ERROR", channel_analysis |-> <<>>]
    ELSE LET analysed == SelectSeq(channels,
                 LAMBDA ch : ch.remote_pubkey # "LOOP_NODE_PUBKEY")
         IN  [status |-> "OK",
              channel_analysis |->
                  [i \in 1..Len(analysed) |->
                      ChannelAnalysis(analysed[i], events, pending)]]

\* a call of analyze_channel_liquidity_flow is about to be made: which
\* collaborator fails, the 7-day history, and the channels the listed
\* unresolved swaps use
FlowInit ==
    /\ MainInit
    /\ \E failure \in FlowFailures, pending \in SUBSET { "101" },
          events \in SeqsUpTo(ForwardingEvents, MaxEvents) :
         toolCall = [tool |-> "analyze_channel_liquidity_flow",
                     failure |-> failure, channels |-> FlowChannels,
                     forwarding_events |-> events, pending |-> pending]
    /\ toolResult = NoResult
    /\ swaps = <<>>
    /\ loopOutRequests = <<>>
    /\ lndCalls = <<>>
    /\ futures = NoFutures
    /\ BfsIdle

\* the call is made
AnalyzeFlow ==
    /\ toolCall.tool = "analyze_channel_liquidity_flow"
    /\ toolResult = NoResult
    /\ toolResult' = analyze_channel_liquidity_flow(
                         toolCall.failure, toolCall.channels,
                         toolCall.forwarding_events, toolCall.pending)
    /\ UNCHANGED << mainVars, futures, lndCalls, bfsVars, toolCall, swaps, loopOutRequests >>

FlowNext == AnalyzeFlow

FlowSpec == FlowInit /\ [][FlowNext]_vars

\* ------------------------------------------------------------------------
\* find_rebalance_opportunities (src/tools/rebalance_opportunities.py)
\* ------------------------------------------------------------------------

\* most channels list_lnd_channels returns to the matcher
MaxChannels == 3

\* the balances a listed channel may have, as << local_balance,
\* remote_balance >>: on and next to both thresholds, empty, all local
ChannelBalances ==
    { <<0, 0>>, <<25, 75>>, <<26, 74>>, <<74, 26>>, <<75, 25>>, <<100, 0>> }

\* the peers a listed channel may be with
RemotePubkeys == { "peer_a", "LOOP_NODE_PUBKEY" }

\* the channel lists list_lnd_channels may return: lnd gives every channel
\* its own chan_id
ListedChannels(n) ==
    { [k \in 1..n |->
          [chan_id |-> ToString(200 + k), remote_pubkey |-> view[k][2],
           local_balance |-> view[k][1][1], remote_balance |-> view[k][1][2]]] :
        view \in [1..n -> ChannelBalances \X RemotePubkeys] }

\* capacity as the matcher computes it
BalanceSum(channel) == channel.local_balance + channel.remote_balance

\* mutant: the low threshold is exclusive
IsLowOutbound_Exclusive(channel) ==
    IF BalanceSum(channel) > 0
    THEN 100 * channel.local_balance < 25 * BalanceSum(channel)
    ELSE TRUE

\* outbound_percentage <= 25, the percentage being local_balance over
\* local_balance + remote_balance times 100, and 0 for an empty channel
IsLowOutbound(channel) ==
    IF BalanceSum(channel) > 0
    THEN 100 * channel.local_balance <= 25 * BalanceSum(channel)
    ELSE TRUE

\* mutant: the channel with the Loop node is not filtered out
IsHighOutbound_LoopIncluded(channel) ==
    /\ ~IsLowOutbound(channel)
    /\ 100 * channel.local_balance >= 75 * BalanceSum(channel)

\* the elif branch: not low, outbound_percentage >= 75, and not a channel
\* with the Loop node
IsHighOutbound(channel) ==
    /\ ~IsLowOutbound(channel)
    /\ 100 * channel.local_balance >= 75 * BalanceSum(channel)
    /\ channel.remote_pubkey # "LOOP_NODE_PUBKEY"

\* the list low_outbound after the loop over the channels
low_outbound(channels) == SelectSeq(channels, IsLowOutbound)

\* the list high_outbound after the loop over the channels
high_outbound(channels) == SelectSeq(channels, IsHighOutbound)

\* the nested loops: every low channel with every high channel, the low
\* channels outermost
Opportunities(low, high) ==
    [k \in 1..(Len(low) * Len(high)) |->
        [incoming_channel_id |-> low[((k - 1) \div Len(high)) + 1].chan_id,
         outgoing_channel_id |-> high[((k - 1) % Len(high)) + 1].chan_id]]

\* find_rebalance_opportunities: a failed channel listing is returned as it
\* is; no channels, or no low or no high channel, give OK with no
\* opportunities
find_rebalance_opportunities(channelsOk, channels) ==
    IF ~channelsOk
    THEN [status |-> "ERROR", message |-> "listing", opportunities |-> <<>>]
    ELSE IF channels = <<>>
    THEN [status |-> "OK", message |-> "No channels found.",
          opportunities |-> <<>>]
    ELSE IF low_outbound(channels) = <<>> \/ high_outbound(channels) = <<>>
    THEN [status |-> "OK", message |-> "No rebalance opportunities found.",
          opportunities |-> <<>>]
    ELSE [status |-> "OK", message |-> "Found",
          opportunities |->
              Opportunities(low_outbound(channels), high_outbound(channels))]

\* a call of find_rebalance_opportunities is about to be made: whether the
\* channel listing succeeds, and the channels it returns
RebalanceInit ==
    /\ MainInit
    /\ \E channelsOk \in BOOLEAN, n \in 0..MaxChannels :
         \E channels \in ListedChannels(n) :
           toolCall = [tool |-> "find_rebalance_opportunities",
                       channelsOk |-> channelsOk, channels |-> channels]
    /\ toolResult = NoResult
    /\ swaps = <<>>
    /\ loopOutRequests = <<>>
    /\ lndCalls = <<>>
    /\ futures = NoFutures
    /\ BfsIdle

\* the call is made
FindRebalanceOpportunities ==
    /\ toolCall.tool = "find_rebalance_opportunities"
    /\ toolResult = NoResult
    /\ toolResult' = find_rebalance_opportunities(toolCall.channelsOk,
                                                  toolCall.channels)
    /\ UNCHANGED << mainVars, futures, lndCalls, bfsVars, toolCall, swaps, loopOutRequests >>

RebalanceNext == FindRebalanceOpportunities

RebalanceSpec == RebalanceInit /\ [][RebalanceNext]_vars

\* ------------------------------------------------------------------------
\* LNDClient.propose_channel_opens (src/tools/lnd_tools.py)
\* ------------------------------------------------------------------------

\* most candidate peers passed to propose_channel_opens
MaxPeers == 5

\* the on-chain reserve kept out of the channel budget
RESERVE == 1000000

\* the smallest channel the planner proposes
MIN_CHANNEL_SIZE == 5000000

\* the size of the dedicated channel to the Loop node
LOOP_CHANNEL_SIZE == 30000000

\* the confirmed wallet balances lnd may report: none, at and next to the
\* reserve, and at and next to the amounts that fund one to five channels
ConfirmedBalances ==
    { 0, 500000, 1000000, 1000001, 5999999, 6000000, 10999999, 11000000,
      16000000, 21000000, 25999999, 26000000, 40000000 }

\* the fee rates the caller may pass
FeeRates == { 1, 25 }

\* the candidate lists the caller may pass: n peers in ranking order, the
\* Loop node at position loopAt when loopAt is not 0
CandidatePeers(n, loopAt) ==
    [k \in 1..n |->
        [pub_key |-> IF k = loopAt THEN "LOOP_NODE_PUBKEY"
                     ELSE "peer_" \o ToString(k)]]

\* mutant: the Loop node alone gets no special treatment
IsLoopAlone_Never(peers) == FALSE

\* the list is the Loop node alone
IsLoopAlone(peers) ==
    Len(peers) = 1 /\ peers[1].pub_key = "LOOP_NODE_PUBKEY"

RECURSIVE FundedPeers_AboveMinimum(_, _)
\* mutant: a share exactly at the minimum is dropped too
FundedPeers_AboveMinimum(available_funds, num_peers) ==
    IF (available_funds \div num_peers) <= MIN_CHANNEL_SIZE /\ num_peers > 0
    THEN IF num_peers - 1 = 0 THEN 0
         ELSE FundedPeers_AboveMinimum(available_funds, num_peers - 1)
    ELSE num_peers

RECURSIVE FundedPeers(_, _)
\* num_peers after the while loop that drops the last candidate while the
\* share is below the minimum; 0 when the loop returns "budget too small"
FundedPeers(available_funds, num_peers) ==
    IF (available_funds \div num_peers) < MIN_CHANNEL_SIZE /\ num_peers > 0
    THEN IF num_peers - 1 = 0 THEN 0
         ELSE FundedPeers(available_funds, num_peers - 1)
    ELSE num_peers

\* the operation proposed for the surviving candidates
ProposedOperation(final_peers, per_channel_amount, sat_per_vbyte) ==
    IF Len(final_peers) > 1
    THEN [type |-> "batch",
          channels |-> [k \in 1..Len(final_peers) |->
                           [node_pubkey |-> final_peers[k].pub_key,
                            local_funding_amount_sat |-> per_channel_amount]],
          sat_per_vbyte |-> sat_per_vbyte]
    ELSE [type |-> "single",
          node_pubkey |-> final_peers[1].pub_key,
          local_funding_amount_sat |-> per_channel_amount,
          sat_per_vbyte |-> sat_per_vbyte]

\* propose_channel_opens(peers, sat_per_vbyte), balanceOk and
\* confirmed_balance being what get_lnd_wallet_balance answers
propose_channel_opens(peers, sat_per_vbyte, balanceOk, confirmed_balance) ==
    IF peers = <<>>
    THEN [status |-> "ERROR", message |-> "No peers provided",
          operations |-> <<>>]
    ELSE IF IsLoopAlone(peers)
    THEN [status |-> "PROPOSED", message |-> "",
          operations |-> << [type |-> "single",
                             node_pubkey |-> "LOOP_NODE_PUBKEY",
                             local_funding_amount_sat |-> LOOP_CHANNEL_SIZE,
                             sat_per_vbyte |-> sat_per_vbyte] >>]
    ELSE IF ~balanceOk
    THEN [status |-> "ERROR", message |-> "wallet balance",
          operations |-> <<>>]
    ELSE IF confirmed_balance = 0
    THEN [status |-> "ERROR", message |-> "Could not retrieve balance",
          operations |-> <<>>]
    ELSE IF confirmed_balance - RESERVE <= 0
    THEN [status |-> "ERROR", message |-> "Insufficient funds",
          operations |-> <<>>]
    ELSE LET available_funds == confirmed_balance - RESERVE
             num_peers == FundedPeers(available_funds, Len(peers))
         IN  IF num_peers = 0
             THEN [status |-> "OK", message |-> "Budget too small",
                   operations |-> <<>>]
             ELSE [status |-> "PROPOSED", message |-> "",
                   operations |->
                       << ProposedOperation(SubSeq(peers, 1, num_peers),
                                            available_funds \div num_peers,
                                            sat_per_vbyte) >>]

\* a call of propose_channel_opens is about to be made: the candidates and
\* the fee rate passed, and what the wallet balance query answers
ProposeInit ==
    /\ MainInit
    /\ \E n \in 0..MaxPeers, balanceOk \in BOOLEAN,
          confirmed_balance \in ConfirmedBalances, sat_per_vbyte \in FeeRates :
         \E loopAt \in 0..n :
           toolCall = [tool |-> "propose_channel_opens",
                       peers |-> CandidatePeers(n, loopAt),
                       sat_per_vbyte |-> sat_per_vbyte,
                       balanceOk |-> balanceOk,
                       confirmed_balance |-> confirmed_balance]
    /\ toolResult = NoResult
    /\ swaps = <<>>
    /\ loopOutRequests = <<>>
    /\ lndCalls = <<>>
    /\ futures = NoFutures
    /\ BfsIdle

\* the call is made
ProposeChannelOpens ==
    /\ toolCall.tool = "propose_channel_opens"
    /\ toolResult = NoResult
    /\ toolResult' = propose_channel_opens(
                         toolCall.peers, toolCall.sat_per_vbyte,
                         toolCall.balanceOk, toolCall.confirmed_balance)
    /\ UNCHANGED << mainVars, futures, lndCalls, bfsVars, toolCall, swaps, loopOutRequests >>

ProposeNext == ProposeChannelOpens

ProposeSpec == ProposeInit /\ [][ProposeNext]_vars

\* ------------------------------------------------------------------------
\* execute_channel_opens (src/tools/lnd_tools.py)
\* ------------------------------------------------------------------------

\* longest operations list passed to execute_channel_opens
MaxOpenOperations == 2

\* dict.get(key): the value of the key, None when the dict has no such key
Get(dict, key) == IF key \in DOMAIN dict THEN dict[key] ELSE "None"

\* a peer and the amount a channel to it is funded with
FundedChannels ==
    [node_pubkey : { "peer_1", "LOOP_NODE_PUBKEY" },
     local_funding_amount_sat : { MIN_CHANNEL_SIZE, LOOP_CHANNEL_SIZE }]

\* the operations the caller may pass; the declaration makes no property of
\* an operation required, so one comes without its fee rate, and one has a
\* type that is neither 'single' nor 'batch'
OpenOperations ==
    { [type |-> "single", node_pubkey |-> c.node_pubkey,
       local_funding_amount_sat |-> c.local_funding_amount_sat,
       sat_per_vbyte |-> 1] : c \in FundedChannels }
    \cup { [type |-> "single", node_pubkey |-> "peer_1",
            local_funding_amount_sat |-> MIN_CHANNEL_SIZE] }
    \cup { [type |-> "batch", channels |-> << c >> \o rest,
            sat_per_vbyte |-> 1] :
             c \in FundedChannels,
             rest \in { <<>>, << [node_pubkey |-> "peer_2",
                                  local_funding_amount_sat
                                      |-> MIN_CHANNEL_SIZE] >> } }
    \cup { [type |-> "splice", node_pubkey |-> "peer_1"] }

\* the operations lists the caller may pass
OperationLists ==
    UNION { [1..n -> OpenOperations] : n \in 0..MaxOpenOperations }

\* the channel is one to the Loop node funded with another amount than the
\* fixed one (lines 358-361 and 368-371)
WrongLoopAmount(channel) ==
    /\ Get(channel, "node_pubkey") = "LOOP_NODE_PUBKEY"
    /\ Get(channel, "local_funding_amount_sat") # LOOP_CHANNEL_SIZE

\* the validation loop finds a Loop channel with the wrong amount
FailsValidation(operations) ==
    \E k \in 1..Len(operations) :
      LET op == operations[k]
      IN  \/ Get(op, "type") = "single" /\ WrongLoopAmount(op)
          \/ /\ Get(op, "type") = "batch"
             /\ "channels" \in DOMAIN op
             /\ \E j \in 1..Len(op.channels) : WrongLoopAmount(op.channels[j])

\* the keys the execution loop reads with op[...] for an operation
KeysRead(op) ==
    IF Get(op, "type") = "single"
    THEN { "node_pubkey", "local_funding_amount_sat", "sat_per_vbyte" }
    ELSE IF Get(op, "type") = "batch"
    THEN { "channels", "sat_per_vbyte" }
    ELSE {}

\* reading the operation's keys raises KeyError
RaisesKeyError(op) == ~(KeysRead(op) \subseteq DOMAIN op)

\* the request _internal_open_channel or _internal_batch_open_channel sends
OpenRequest(op) ==
    IF op.type = "single"
    THEN [rpc |-> "OpenChannelSync", node_pubkey |-> op.node_pubkey,
          local_funding_amount |-> op.local_funding_amount_sat,
          sat_per_vbyte |-> op.sat_per_vbyte,
          use_fee_rate |-> op.node_pubkey = "LOOP_NODE_PUBKEY"]
    ELSE [rpc |-> "BatchOpenChannel", channels |-> op.channels,
          sat_per_vbyte |-> op.sat_per_vbyte]

\* the result the execution loop appends for an operation, rpc_ok telling
\* whether lnd accepts the request
OpenResult(op, stub_ready, rpc_ok) ==
    IF Get(op, "type") \notin { "single", "batch" }
    THEN [status |-> "ERROR", message |-> "Unknown operation type"]
    ELSE IF ~stub_ready
    THEN [status |-> "ERROR", message |-> "LND gRPC client not initialized."]
    ELSE IF rpc_ok
    THEN [status |-> "OK", message |-> ""]
    ELSE [status |-> "ERROR", message |-> "gRPC error opening channel"]

\* the requests sent for the first n operations, in order
RECURSIVE RequestsSent(_, _, _)
RequestsSent(operations, n, stub_ready) ==
    IF n = 0 THEN <<>>
    ELSE RequestsSent(operations, n - 1, stub_ready)
           \o (IF stub_ready
                  /\ Get(operations[n], "type") \in { "single", "batch" }
               THEN << OpenRequest(operations[n]) >>
               ELSE <<>>)

\* execute_channel_opens(operations): what it returns and the requests it
\* has sent, stub_ready telling whether the gRPC client was set up and
\* rpc_ok[k] whether lnd accepts the request of operation k
execute_channel_opens(operations, stub_ready, rpc_ok) ==
    LET raising == { k \in 1..Len(operations) : RaisesKeyError(operations[k]) }
        done == IF raising = {} THEN Len(operations)
                ELSE (CHOOSE k \in raising : \A j \in raising : k <= j) - 1
    IN  IF operations = <<>>
        THEN [result |-> [status |-> "ERROR",
                          message |-> "No operations provided to execute.",
                          results |-> <<>>],
              requests |-> <<>>]
        ELSE IF FailsValidation(operations)
        THEN [result |-> [status |-> "ERROR",
                          message |-> "LOOP node channel open must be exactly 30M satoshis.",
                          results |-> <<>>],
              requests |-> <<>>]
        ELSE IF raising # {}
        THEN [result |-> [status |-> "raised", message |-> "KeyError",
                          results |-> <<>>],
              requests |-> RequestsSent(operations, done, stub_ready)]
        ELSE [result |-> [status |-> "OK", message |-> "",
                          results |-> [k \in 1..Len(operations) |->
                                          OpenResult(operations[k], stub_ready,
                                                     rpc_ok[k])]],
              requests |-> RequestsSent(operations, done, stub_ready)]

\* a call of execute_channel_opens is about to be made
OpenInit ==
    /\ MainInit
    /\ \E operations \in OperationLists, stub_ready \in BOOLEAN :
         \E rpc_ok \in [1..Len(operations) -> BOOLEAN] :
           toolCall = [tool |-> "execute_channel_opens",
                       operations |-> operations,
                       stub_ready |-> stub_ready,
                       rpc_ok |-> rpc_ok]
    /\ toolResult = NoResult
    /\ swaps = <<>>
    /\ loopOutRequests = <<>>
    /\ lndCalls = <<>>
    /\ futures = NoFutures
    /\ BfsIdle

\* the call is made
ExecuteChannelOpens ==
    /\ toolCall.tool = "execute_channel_opens"
    /\ toolResult = NoResult
    /\ LET r == execute_channel_opens(toolCall.operations,
                                      toolCall.stub_ready, toolCall.rpc_ok)
       IN  /\ toolResult' = r.result
           /\ lndCalls' = r.requests
    /\ UNCHANGED << mainVars, futures, bfsVars, toolCall, swaps, loopOutRequests >>

OpenNext == ExecuteChannelOpens

OpenSpec == OpenInit /\ [][OpenNext]_vars

\* ------------------------------------------------------------------------
\* execute_rebalance (src/tools/rebalance_tools.py)
\* ------------------------------------------------------------------------

\* the largest amount a rebalance moves, in sat
MAX_REBALANCE_AMOUNT == 20000

\* max_fee_rate: the fee limit of the route, in parts per million
MAX_FEE_RATE == 4000

\* the amounts the caller may ask for, the 250000 of the workflow among them
RebalanceAmounts == { 1, 20000, 20001, 250000 }

\* what a method of the lnd client does: it answers OK, answers ERROR, or
\* the call raises (the client of lnd_tools.py defines get_lnd_info only)
CallOutcomes == { "OK", "ERROR", "raised" }

\* the two ends of a channel as get_channel_info reports them, "me" being
\* the identity_pubkey of get_lnd_info
ChannelEnds ==
    { [node1_pub |-> "me", node2_pub |-> "peer_a"],
      [node1_pub |-> "peer_a", node2_pub |-> "me"],
      [node1_pub |-> "me", node2_pub |-> "LOOP_NODE_PUBKEY"],
      [node1_pub |-> "LOOP_NODE_PUBKEY", node2_pub |-> "me"] }

\* what lnd answers to the calls of one rebalance
LndAnswers ==
    [info : { "OK", "ERROR" },
     outgoing : [status : { "OK" }, ends : ChannelEnds]
                  \cup [status : { "ERROR", "raised" },
                        ends : { [node1_pub |-> "me",
                                  node2_pub |-> "peer_a"] }],
     incoming : CallOutcomes,
     routes : [status : { "OK" }, found : BOOLEAN]
                \cup [status : { "ERROR", "raised" }, found : { FALSE }],
     invoice : [status : { "OK" }, complete : BOOLEAN]
                 \cup [status : { "ERROR", "raised" }, complete : { FALSE }],
     send : CallOutcomes]

\* amount_sats after lines 22-24
AmountMoved(amount_sats) ==
    IF amount_sats > MAX_REBALANCE_AMOUNT THEN MAX_REBALANCE_AMOUNT
    ELSE amount_sats

\* mutant: the peer is taken to be node1_pub whoever that is
PeerOfChannel_Node1(ends, my_pubkey) == ends.node1_pub

\* the peer of a channel: node1_pub, or node2_pub when node1_pub is the
\* node itself (lines 36-40 and 52-54)
PeerOfChannel(ends, my_pubkey) ==
    IF ends.node1_pub = my_pubkey THEN ends.node2_pub ELSE ends.node1_pub

\* what a call that did not answer OK makes execute_rebalance return: the
\* answer itself, or nothing when the call raised
FailedWith(status, method) ==
    IF status = "raised" THEN [status |-> "raised", message |-> method]
    ELSE [status |-> "ERROR", message |-> method]

\* execute_rebalance(lnd_client, outgoing_channel_id, incoming_channel_id,
\* amount_sats): what it returns and the requests it has sent, lnd being
\* the answers of the client
execute_rebalance(lnd, outgoing_channel_id, incoming_channel_id, asked) ==
    LET amount_sats == AmountMoved(asked)
        amount_msat == amount_sats * 1000
        \* int(amount_msat * (max_fee_rate / 1000000)), amount_msat being
        \* a multiple of 1000
        fee_limit_msat == (amount_sats * MAX_FEE_RATE) \div 1000
        asked_info == << [rpc |-> "get_lnd_info"] >>
        asked_outgoing ==
            asked_info \o << [rpc |-> "get_channel_info",
                              chan_id |-> outgoing_channel_id] >>
        asked_incoming ==
            asked_outgoing \o << [rpc |-> "get_channel_info",
                                  chan_id |-> incoming_channel_id] >>
        asked_routes ==
            asked_incoming
              \o << [rpc |-> "_query_routes",
                     outgoing_chan_id |-> outgoing_channel_id,
                     amt_msat |-> amount_msat,
                     fee_limit_msat |-> fee_limit_msat] >>
        asked_invoice ==
            asked_routes \o << [rpc |-> "_add_invoice",
                                value_msat |-> amount_sats * 1000] >>
        asked_send ==
            asked_invoice \o << [rpc |-> "_send_to_route_v2",
                                 total_amt_msat |-> amount_sats * 1000] >>
    IN  IF lnd.info # "OK"
        THEN [result |-> FailedWith(lnd.info, "get_lnd_info"),
              requests |-> asked_info]
        ELSE IF lnd.outgoing.status # "OK"
        THEN [result |-> FailedWith(lnd.outgoing.status, "get_channel_info"),
              requests |-> asked_outgoing]
        ELSE IF PeerOfChannel(lnd.outgoing.ends, "me") = "LOOP_NODE_PUBKEY"
        THEN [result |-> [status |-> "ERROR",
                          message |-> "Cannot use a channel with the LOOP node"],
              requests |-> asked_outgoing]
        ELSE IF lnd.incoming # "OK"
        THEN [result |-> FailedWith(lnd.incoming, "get_channel_info"),
              requests |-> asked_incoming]
        ELSE IF lnd.routes.status # "OK"
        THEN [result |-> FailedWith(lnd.routes.status, "_query_routes"),
              requests |-> asked_routes]
        ELSE IF ~lnd.routes.found
        THEN [result |-> [status |-> "ERROR",
                          message |-> "Could not find a route."],
              requests |-> asked_routes]
        ELSE IF lnd.invoice.status # "OK"
        THEN [result |-> FailedWith(lnd.invoice.status, "_add_invoice"),
              requests |-> asked_invoice]
        ELSE IF ~lnd.invoice.complete
        THEN [result |-> [status |-> "ERROR",
                          message |-> "Could not get payment hash"],
              requests |-> asked_invoice]
        ELSE [result |-> IF lnd.send = "OK"
                         THEN [status |-> "OK", message |-> ""]
                         ELSE FailedWith(lnd.send, "_send_to_route_v2"),
              requests |-> asked_send]

\* a call of execute_rebalance is about to be made
ExecuteRebalanceInit ==
    /\ MainInit
    /\ \E lnd \in LndAnswers, amount_sats \in RebalanceAmounts :
         toolCall = [tool |-> "execute_rebalance",
                     outgoing_channel_id |-> "201",
                     incoming_channel_id |-> "202",
                     amount_sats |-> amount_sats,
                     lnd |-> lnd]
    /\ toolResult = NoResult
    /\ swaps = <<>>
    /\ loopOutRequests = <<>>
    /\ lndCalls = <<>>
    /\ futures = NoFutures
    /\ BfsIdle

\* the call is made
ExecuteRebalance ==
    /\ toolCall.tool = "execute_rebalance"
    /\ toolResult = NoResult
    /\ LET r == execute_rebalance(toolCall.lnd, toolCall.outgoing_channel_id,
                                  toolCall.incoming_channel_id,
                                  toolCall.amount_sats)
       IN  /\ toolResult' = r.result
           /\ lndCalls' = r.requests
    /\ UNCHANGED << mainVars, futures, bfsVars, toolCall, swaps, loopOutRequests >>

ExecuteRebalanceNext == ExecuteRebalance

ExecuteRebalanceSpec == ExecuteRebalanceInit /\ [][ExecuteRebalanceNext]_vars

\* ------------------------------------------------------------------------
\* The catalog given to the planner and the dispatch table (declarations.py,
\* main.py)
\* ------------------------------------------------------------------------

\* declarations.py: the names of the declarations in the list `tools`
Catalog ==
    { "get_lnd_info", "get_lnd_wallet_balance", "get_lnd_channel_balance",
      "set_fee_policy", "propose_channel_opens", "execute_channel_opens",
      "list_lnd_peers", "list_lnd_channels", "search_documents",
      "get_document_content", "list_all_documents", "list_documents_by_type",
      "get_top_and_filter_nodes", "connect_peer", "get_lnd_state",
      "get_fee_recommendations", "get_node_uri", "batch_connect_peers",
      "analyze_channel_liquidity_flow", "calculate_and_quote_loop_outs",
      "initiate_loop_out", "list_loop_out_swaps", "should_open_to_loop",
      "propose_fee_adjustments", "execute_rebalance",
      "find_rebalance_opportunities", "propose_channel_closes",
      "execute_channel_closes" }

\* declarations.py: the "required" list of a declaration
DeclaredRequired(name) ==
    CASE name = "set_fee_policy" -> { "channel_id", "fee_rate" }
      [] name = "propose_channel_opens" -> { "peers", "sat_per_vbyte" }
      [] name = "execute_channel_opens" -> { "operations" }
      [] name = "search_documents" -> { "query" }
      [] name = "get_document_content" -> { "document_name" }
      [] name = "list_documents_by_type" -> { "doc_type" }
      [] name = "connect_peer" -> { "node_pubkey", "host_port" }
      [] name = "analyze_peer_network" -> { "start_pubkey" }
      [] name = "get_node_uri" -> { "pubkey" }
      [] name = "batch_connect_peers" -> { "peers" }
      [] name = "calculate_and_quote_loop_outs" -> { "channel_ids" }
      [] name = "initiate_loop_out" -> { "channel_id" }
      [] name = "execute_rebalance" ->
             { "outgoing_channel_id", "incoming_channel_id", "amount_sats" }
      [] name = "execute_channel_closes" -> { "channel_points" }
      [] OTHER -> {}

\* declarations.py: the properties a declaration has and does not require
DeclaredOptional(name) ==
    CASE name = "get_top_and_filter_nodes" -> { "limit" }
      [] name = "analyze_peer_network" -> { "max_depth", "peers_per_level" }
      [] OTHER -> {}

\* the parameters of an implementation that have a default value
\* (mempool_space_tools.py 72)
ImplementationDefaults(name) ==
    CASE name = "get_top_and_filter_nodes" -> { "limit" }
      [] OTHER -> {}

\* the names the planner may request: the catalog, analyze_peer_network,
\* which is declared but left out of the list, and a name nothing declares
PlannerNames == Catalog \cup { "analyze_peer_network", "drain_wallet" }

\* the argument names a request may carry: the declared required ones,
\* with one optional or one undeclared property added, or one required
\* property left out
RequestKeySets(name) ==
    { DeclaredRequired(name) }
    \cup { DeclaredRequired(name) \cup { k } :
             k \in DeclaredOptional(name) \cup { "memo" } }
    \cup { DeclaredRequired(name) \ { k } : k \in DeclaredRequired(name) }

\* how main() answers a call it executes: the error for a name that is not
\* in tool_implementations, the TypeError of impl(**function_args) caught,
\* or the implementation's own output
Dispatch(function_name, keys) ==
    IF function_name \notin tool_implementations
    THEN "Unknown function requested by model"
    ELSE IF /\ ImplementationParams(function_name) \subseteq keys
            /\ keys \subseteq ImplementationParams(function_name)
                               \cup ImplementationDefaults(function_name)
    THEN "called"
    ELSE "TypeError"

\* the planner is about to request an action
DispatchInit ==
    /\ MainInit
    /\ \E function_name \in PlannerNames :
         \E keys \in RequestKeySets(function_name) :
           toolCall = [tool |-> "dispatch",
                       function_name |-> function_name,
                       keys |-> keys]
    /\ toolResult = NoResult
    /\ swaps = <<>>
    /\ loopOutRequests = <<>>
    /\ lndCalls = <<>>
    /\ futures = NoFutures
    /\ BfsIdle

\* main() executes the call
DispatchCall ==
    /\ toolCall.tool = "dispatch"
    /\ toolResult = NoResult
    /\ toolResult' = [status |-> Dispatch(toolCall.function_name,
                                          toolCall.keys)]
    /\ UNCHANGED << mainVars, futures, lndCalls, bfsVars, toolCall, swaps,
                    loopOutRequests >>

DispatchNext == DispatchCall

DispatchSpec == DispatchInit /\ [][DispatchNext]_vars

\* ------------------------------------------------------------------------
\* analyze_peer_network (src/tools/network_analysis_tools.py)
\* ------------------------------------------------------------------------

\* largest max_depth passed to analyze_peer_network
MaxDepth == 2

\* largest peers_per_level passed to analyze_peer_network
MaxPeersPerLevel == 2

\* two nodes that list each other
CycleGraph ==
    [n \in { "A", "B" } |->
        IF n = "A" THEN ScoredNode(3, { "B" }) ELSE ScoredNode(4, { "A" })]

\* four nodes that all list each other; A also lists itself and a peer
\* that has no entry
CompleteGraph ==
    [n \in { "A", "B", "C", "D" } |->
        IF n = "A" THEN ScoredNode(5, { "A", "B", "C", "D", "X" })
        ELSE IF n = "B" THEN ScoredNode(7, { "A", "C", "D" })
        ELSE IF n = "C" THEN ScoredNode(7, { "A", "B", "D" })
        ELSE ScoredNode(1, { "A", "B", "C" })]

\* a binary tree of seven nodes, every node listing its parent and its
\* children
TreeGraph ==
    [n \in { "T1", "T2", "T3", "T4", "T5", "T6", "T7" } |->
        IF n = "T1" THEN ScoredNode(1, { "T2", "T3" })
        ELSE IF n = "T2" THEN ScoredNode(2, { "T1", "T4", "T5" })
        ELSE IF n = "T3" THEN ScoredNode(3, { "T1", "T6", "T7" })
        ELSE IF n \in { "T4", "T5" } THEN ScoredNode(4, { "T2" })
        ELSE ScoredNode(5, { "T3" })]

\* the values _global_all_scored_nodes may have when the analysis is called
NodeGraphs == { NoScoredNodes, CycleGraph, CompleteGraph, TreeGraph }

\* the start_pubkey values the caller may pass for a graph: a scored node,
\* or a node that has no entry
StartPubkeys(graph) == DOMAIN graph \cup { "Z" }

\* the sequences of k different members of S
RECURSIVE Arrangements(_, _)
Arrangements(S, k) ==
    IF k = 0 \/ S = {} THEN { <<>> }
    ELSE UNION { { << x >> \o rest : rest \in Arrangements(S \ { x }, k - 1) } :
                 x \in S }

\* the peers of the node that pass the test of lines 159-162: not visited
\* yet and present in the global data
EligiblePeers(graph, node_data, visited) ==
    { p \in node_data.stable_peers : p \notin visited /\ p \in DOMAIN graph }

\* the smaller of two numbers
Smaller(a, b) == IF a <= b THEN a ELSE b

\* mutant: every eligible peer is explored
NewPeersToExplore_Unlimited(graph, node_data, visited, peers_per_level) ==
    LET eligible == EligiblePeers(graph, node_data, visited)
    IN  Arrangements(eligible, Cardinality(eligible))

\* the lists new_peers_to_explore the loop of lines 157-165 can build: the
\* set of peers is walked in an order the build chooses, eligible peers are
\* collected, and the walk stops once peers_per_level are collected; the
\* test comes after the append, so with peers_per_level <= 0 the walk stops
\* after the first peer, which is collected when it is eligible
NewPeersToExplore(graph, node_data, visited, peers_per_level) ==
    LET eligible == EligiblePeers(graph, node_data, visited)
    IN  IF peers_per_level >= 1
        THEN Arrangements(eligible,
                          Smaller(peers_per_level, Cardinality(eligible)))
        ELSE { << p >> : p \in eligible }
             \cup (IF node_data.stable_peers \ eligible # {}
                      \/ node_data.stable_peers = {}
                   THEN { <<>> } ELSE {})

\* mutant: a pub_key taken from the queue is never skipped
AlreadyVisited_Never(pub_key, visited) == FALSE

\* the test of line 130
AlreadyVisited(pub_key, visited) == pub_key \in visited

\* the place of the i-th record once the records are sorted by falling
\* score: behind every record of a higher score and behind the records of
\* the same score that were recorded earlier
PlaceByScore(records, i) ==
    1 + Cardinality({ j \in 1..Len(records) :
                        \/ records[j].score > records[i].score
                        \/ records[j].score = records[i].score /\ j < i })

\* sorted(discovered_nodes.values(), key=score, reverse=True): a stable
\* sort, records of equal score keep the order in which they were recorded
SortedByScore(records) ==
    [k \in 1..Len(records) |->
        records[CHOOSE i \in 1..Len(records) : PlaceByScore(records, i) = k]]

\* a call of analyze_peer_network is about to be made: the global node
\* data, the start node, the depth and the number of peers per level
NetworkInit ==
    /\ MainInit
    /\ \E graph \in NodeGraphs, max_depth \in 0..MaxDepth,
          peers_per_level \in 0..MaxPeersPerLevel :
         \E start_pubkey \in StartPubkeys(graph) :
           /\ _global_all_scored_nodes = graph
           /\ toolCall = [tool |-> "analyze_peer_network",
                          start_pubkey |-> start_pubkey,
                          max_depth |-> max_depth,
                          peers_per_level |-> peers_per_level]
    /\ toolResult = NoResult
    /\ swaps = <<>>
    /\ loopOutRequests = <<>>
    /\ lndCalls = <<>>
    /\ futures = NoFutures
    /\ NothingVisited

\* the analysis is inside its while loop
Exploring ==
    toolCall.tool = "analyze_peer_network" /\ toolResult.status = "running"

\* lines 117-125: without global node data the call fails at once; else the
\* queue starts with the start node at depth 0
StartAnalysis ==
    /\ toolCall.tool = "analyze_peer_network"
    /\ toolResult = NoResult
    /\ IF DOMAIN _global_all_scored_nodes = {}
       THEN /\ toolResult' = [status |-> "ERROR", network_analysis |-> <<>>]
            /\ queue' = queue
       ELSE /\ toolResult' = [status |-> "running", network_analysis |-> <<>>]
            /\ queue' = << [pub_key |-> toolCall.start_pubkey, depth |-> 0] >>
    /\ UNCHANGED << mainVars, futures, lndCalls, toolCall, swaps, loopOutRequests,
                    visited_pubkeys, discovered_nodes, expansions,
                    _global_all_scored_nodes >>

\* lines 128-131: the head of the queue was visited before and is dropped
SkipVisited ==
    /\ Exploring
    /\ queue # <<>>
    /\ AlreadyVisited(Head(queue).pub_key, visited_pubkeys)
    /\ queue' = Tail(queue)
    /\ UNCHANGED << mainVars, futures, lndCalls, toolCall, toolResult, swaps, loopOutRequests,
                    visited_pubkeys, discovered_nodes, expansions,
                    _global_all_scored_nodes >>

\* lines 128-170: the head of the queue is visited; when it has an entry in
\* the global data it is recorded, and below max_depth its new peers are
\* put at the end of the queue one level deeper
VisitNode ==
    /\ Exploring
    /\ queue # <<>>
    /\ ~AlreadyVisited(Head(queue).pub_key, visited_pubkeys)
    /\ LET current_pubkey == Head(queue).pub_key
           current_depth == Head(queue).depth
           visited == visited_pubkeys \cup { current_pubkey }
       IN  /\ visited_pubkeys' = visited
           /\ expansions' = Append(expansions, current_pubkey)
           /\ IF current_pubkey \in DOMAIN _global_all_scored_nodes
              THEN /\ discovered_nodes' =
                        Append(discovered_nodes,
                               [pub_key |-> current_pubkey,
                                score |-> _global_all_scored_nodes[current_pubkey].score,
                                depth |-> current_depth])
                   /\ IF current_depth < toolCall.max_depth
                      THEN \E new_peers_to_explore \in
                                NewPeersToExplore(_global_all_scored_nodes,
                                    _global_all_scored_nodes[current_pubkey], visited,
                                    toolCall.peers_per_level) :
                             queue' = Tail(queue) \o
                                 [k \in 1..Len(new_peers_to_explore) |->
                                     [pub_key |-> new_peers_to_explore[k],
                                      depth |-> current_depth + 1]]
                      ELSE queue' = Tail(queue)
              ELSE /\ discovered_nodes' = discovered_nodes
                   /\ queue' = Tail(queue)
    /\ UNCHANGED << mainVars, futures, lndCalls, toolCall, toolResult, swaps, loopOutRequests,
                    _global_all_scored_nodes >>

\* lines 172-181: the queue is empty and the records are returned, highest
\* score first
ReturnAnalysis ==
    /\ Exploring
    /\ queue = <<>>
    /\ toolResult' = [status |-> "OK",
                      network_analysis |-> SortedByScore(discovered_nodes)]
    /\ UNCHANGED << mainVars, futures, lndCalls, toolCall, swaps, loopOutRequests, bfsVars >>

NetworkNext ==
    \/ StartAnalysis
    \/ SkipVisited
    \/ VisitNode
    \/ ReturnAnalysis

NetworkSpec == NetworkInit /\ [][NetworkNext]_vars

\* the call is a single thread that runs on until it returns
NetworkFairSpec == NetworkSpec /\ WF_vars(NetworkNext)

\* ------------------------------------------------------------------------
\* get_node_availability_data and the node-graph cache
\* (src/tools/network_analysis_tools.py)
\* ------------------------------------------------------------------------

\* the documents the URL may serve: the 'scored' map and the order of its
\* keys in the document; the last one has no 'scored' entry at all
FetchedDocuments ==
    { [scored |-> CycleGraph, keys |-> << "A", "B" >>],
      [scored |-> CompleteGraph, keys |-> << "D", "B", "A", "C" >>],
      [scored |-> TreeGraph,
       keys |-> << "T1", "T2", "T3", "T4", "T5", "T6", "T7" >>],
      [scored |-> NoScoredNodes, keys |-> <<>>] }

\* how a fetch may end: the request fails, the body is not JSON, the body
\* has an 'error' or a 'raw_output' key, or the body is a document
FetchOutcomes == { "request_error", "not_json", "error", "raw_output", "ok" }

\* the values of limit the caller may pass
Limits == { 1, 5 }

\* top_nodes_summary: the nodes of the document sorted by falling score,
\* cut to the first limit, each with its rank
TopNodesSummary(document, limit) ==
    LET sorted_nodes ==
            SortedByScore([k \in 1..Len(document.keys) |->
                [pub_key |-> document.keys[k],
                 score |-> document.scored[document.keys[k]].score]])
    IN  [i \in 1..Smaller(limit, Len(sorted_nodes)) |->
            [rank |-> i, pub_key |-> sorted_nodes[i].pub_key,
             score |-> sorted_nodes[i].score]]

\* mutant: the fetched entries are added to the entries already held
StoredNodes_Merged(held, scored) ==
    [n \in DOMAIN held \cup DOMAIN scored |->
        IF n \in DOMAIN scored THEN scored[n] ELSE held[n]]

\* lines 44-46: the global is bound to the document's 'scored' map
StoredNodes(held, scored) == scored

\* no call is in progress: the calls of the tools come one after another
NoCallRunning == toolCall = NoCall \/ toolResult.status \in { "OK", "ERROR" }

\* one call of get_node_availability_data(url, limit): a failed fetch
\* returns an error before the global is touched, a document replaces it
\* and is summarised
GetNodeAvailabilityData ==
    /\ NoCallRunning
    /\ \E outcome \in FetchOutcomes, document \in FetchedDocuments,
          limit \in Limits :
         /\ toolCall' = [tool |-> "get_node_availability_data",
                         outcome |-> outcome, limit |-> limit,
                         document |-> IF outcome = "ok" THEN document
                                      ELSE [scored |-> NoScoredNodes,
                                            keys |-> <<>>]]
         /\ IF outcome = "ok"
            THEN /\ _global_all_scored_nodes' =
                      StoredNodes(_global_all_scored_nodes, document.scored)
                 /\ toolResult' =
                      [status |-> "OK",
                       top_nodes_summary |-> TopNodesSummary(document, limit)]
            ELSE /\ _global_all_scored_nodes' = _global_all_scored_nodes
                 /\ toolResult' = [status |-> "ERROR",
                                   top_nodes_summary |-> <<>>]
    /\ UNCHANGED << mainVars, futures, lndCalls, swaps, loopOutRequests, queue, visited_pubkeys,
                    discovered_nodes, expansions >>

\* analyze_peer_network is called with a start node, a depth and a number
\* of peers per level; its locals start empty
CallAnalyzePeerNetwork ==
    /\ NoCallRunning
    /\ \E start_pubkey \in StartPubkeys(_global_all_scored_nodes),
          max_depth \in 0..MaxDepth, peers_per_level \in 0..MaxPeersPerLevel :
         toolCall' = [tool |-> "analyze_peer_network",
                      start_pubkey |-> start_pubkey, max_depth |-> max_depth,
                      peers_per_level |-> peers_per_level]
    /\ toolResult' = NoResult
    /\ queue' = <<>>
    /\ visited_pubkeys' = {}
    /\ discovered_nodes' = <<>>
    /\ expansions' = <<>>
    /\ UNCHANGED << mainVars, futures, lndCalls, swaps, loopOutRequests,
                    _global_all_scored_nodes >>

CacheNext ==
    \/ GetNodeAvailabilityData
    \/ CallAnalyzePeerNetwork
    \/ StartAnalysis
    \/ SkipVisited
    \/ VisitNode
    \/ ReturnAnalysis

CacheSpec == Init /\ [][CacheNext]_vars

\* ------------------------------------------------------------------------
\* calculate_dynamic_fee (src/tools/fee_management_tools.py)
\* ------------------------------------------------------------------------

\* most forwarding events in the history calculate_dynamic_fee reads
MaxFeeEvents == 2

\* the channels list_lnd_channels returns: two with peer_a, one with the
\* Loop node, one with peer_b; peer_new has no channel
FeeChannels ==
    << [chan_id |-> "101", remote_pubkey |-> "peer_a"],
       [chan_id |-> "102", remote_pubkey |-> "peer_a"],
       [chan_id |-> "103", remote_pubkey |-> "LOOP_NODE_PUBKEY"],
       [chan_id |-> "104", remote_pubkey |-> "peer_b"] >>

\* the peers a fee may be asked for
FeePubkeys == { "peer_a", "LOOP_NODE_PUBKEY", "peer_new" }

\* the forwarding events of the history. Amounts are msat, too large for
\* the model's integers at the tiers' scale, so an amount is carried as
\* whole sats plus the msat beyond them: amt_in_msat is 1000 * amt_in_sat,
\* amt_out_msat is 1000 * amt_out_sat + amt_out_rest
FeeEvents ==
    { [chan_id_in |-> c[1], chan_id_out |-> c[2],
       amt_in_sat |-> a, amt_out_sat |-> a, amt_out_rest |-> r] :
        c \in { <<"101", "102">>, <<"104", "101">>, <<"103", "104">> },
        a \in { 0, 250000, 500000, 2500000, 5000000, 25000000 },
        r \in { 0, 1 } }

\* a flow of msat as whole sats and the msat beyond them
FlowOf(sat, rest) == [sat |-> sat + (rest \div 1000), rest |-> rest % 1000]

\* no flow
NoFlow == FlowOf(0, 0)

RECURSIVE TotalFlow(_, _)
\* total_flow_msat: amt_in_msat + amt_out_msat summed over the events whose
\* inbound or outbound channel is one of the peer's channels
TotalFlow(events, peer_channel_ids) ==
    IF events = <<>> THEN NoFlow
    ELSE LET event == Head(events)
             rest == TotalFlow(Tail(events), peer_channel_ids)
         IN  IF \/ event.chan_id_in \in peer_channel_ids
                \/ event.chan_id_out \in peer_channel_ids
             THEN FlowOf(rest.sat + event.amt_in_sat + event.amt_out_sat,
                         rest.rest + event.amt_out_rest)
             ELSE rest

\* total_flow_sats > threshold, total_flow_sats being total_flow_msat / 1000
FlowAbove(flow, threshold) ==
    flow.sat > threshold \/ (flow.sat = threshold /\ flow.rest > 0)

\* the larger of two numbers
Larger(a, b) == IF a >= b THEN a ELSE b

\* mutant: the two upper tiers of an ordinary peer are swapped
FeePpm_TiersSwapped(pubkey, has_channels, flow) ==
    IF pubkey = "LOOP_NODE_PUBKEY"
    THEN Larger(IF FlowAbove(flow, 50000000) THEN 5000
                ELSE IF FlowAbove(flow, 10000000) THEN 4800
                ELSE 4500, 4000)
    ELSE Larger(IF ~has_channels THEN 1200
                ELSE IF FlowAbove(flow, 10000000) THEN 1300
                ELSE IF FlowAbove(flow, 5000000) THEN 1500
                ELSE IF FlowAbove(flow, 1000000) THEN 1200
                ELSE IF FlowAbove(flow, 500000) THEN 1100
                ELSE 900, 850)

\* final_fee_ppm: the tier of the flow, with the floor of the peer's kind
FeePpm(pubkey, has_channels, flow) ==
    IF pubkey = "LOOP_NODE_PUBKEY"
    THEN Larger(IF FlowAbove(flow, 50000000) THEN 5000
                ELSE IF FlowAbove(flow, 10000000) THEN 4800
                ELSE 4500, 4000)
    ELSE Larger(IF ~has_channels THEN 1200
                ELSE IF FlowAbove(flow, 10000000) THEN 1500
                ELSE IF FlowAbove(flow, 5000000) THEN 1300
                ELSE IF FlowAbove(flow, 1000000) THEN 1200
                ELSE IF FlowAbove(flow, 500000) THEN 1100
                ELSE 900, 850)

\* calculate_dynamic_fee(pubkey): a failed channel listing is returned as
\* it is; the history is read only when the peer has channels, and its
\* failure is returned as it is
calculate_dynamic_fee(pubkey, channelsOk, channels, historyOk, events) ==
    IF ~channelsOk THEN [status |-> "ERROR", fee_ppm |-> 0]
    ELSE LET peer_channels ==
                 SelectSeq(channels, LAMBDA ch : ch.remote_pubkey = pubkey)
             peer_channel_ids ==
                 { peer_channels[k].chan_id : k \in 1..Len(peer_channels) }
         IN  IF peer_channels # <<>> /\ ~historyOk
             THEN [status |-> "ERROR", fee_ppm |-> 0]
             ELSE [status |-> "OK",
                   fee_ppm |->
                       FeePpm(pubkey, peer_channels # <<>>,
                              IF peer_channels # <<>>
                              THEN TotalFlow(events, peer_channel_ids)
                              ELSE NoFlow)]

\* a call of calculate_dynamic_fee is about to be made: the peer, whether
\* the two queries succeed, and the 7-day history
FeeInit ==
    /\ MainInit
    /\ \E pubkey \in FeePubkeys,
          ok \in { <<TRUE, TRUE>>, <<TRUE, FALSE>>, <<FALSE, TRUE>> },
          events \in SeqsUpTo(FeeEvents, MaxFeeEvents) :
         toolCall = [tool |-> "calculate_dynamic_fee", pubkey |-> pubkey,
                     channelsOk |-> ok[1], historyOk |-> ok[2],
                     channels |-> FeeChannels, forwarding_events |-> events]
    /\ toolResult = NoResult
    /\ swaps = <<>>
    /\ loopOutRequests = <<>>
    /\ lndCalls = <<>>
    /\ futures = NoFutures
    /\ BfsIdle

\* the call is made
CalculateDynamicFee ==
    /\ toolCall.tool = "calculate_dynamic_fee"
    /\ toolResult = NoResult
    /\ toolResult' = calculate_dynamic_fee(
                         toolCall.pubkey, toolCall.channelsOk,
                         toolCall.channels, toolCall.historyOk,
                         toolCall.forwarding_events)
    /\ UNCHANGED << mainVars, futures, lndCalls, bfsVars, toolCall, swaps, loopOutRequests >>

FeeNext == CalculateDynamicFee

FeeSpec == FeeInit /\ [][FeeNext]_vars

\* ------------------------------------------------------------------------
\* get_top_and_filter_nodes (src/tools/mempool_space_tools.py)
\* ------------------------------------------------------------------------

\* most nodes in the ranking mempool.space answers with
MaxCandidates == 3

\* average_fee_rate_ppm of a node without channels ("N/A", not a number)
NoRate == -1

\* the largest average fee rate of a node that is left out
LOW_FEE_RATE == 100

\* config.py: a member of NODE_BLACKLIST
BLACKLISTED == "0364913d18a19c671bb36dd04d6ad5be0fe8f2894314c36a9db3f03c2d414907e1"

\* what mempool.space knows of a ranked node: whether its channels can be
\* fetched, its average fee rate and the score its details give
NodeKinds ==
    { "unreachable", "cheap", "unrated", "blacklisted", "good_1", "good_2" }

\* the k-th node of the ranking, of a given kind
RankedNode(k, kind) ==
    [publicKey |-> IF kind = "blacklisted" THEN BLACKLISTED
                   ELSE "node_" \o ToString(k),
     channels_ok |-> kind # "unreachable",
     average_fee_rate_ppm |-> CASE kind = "cheap" -> LOW_FEE_RATE
                                [] kind = "unrated" -> NoRate
                                [] OTHER -> LOW_FEE_RATE + 1,
     score |-> IF kind = "good_2" THEN 2 ELSE 1]

\* the rankings mempool.space may answer with
Rankings ==
    UNION { { [k \in 1..n |-> RankedNode(k, kinds[k])] :
                kinds \in [1..n -> NodeKinds] } : n \in 0..MaxCandidates }

\* top_by_channels[: int(limit)]
pubkeys_to_check(top_by_channels, limit) ==
    SubSeq(top_by_channels, 1, Smaller(limit, Len(top_by_channels)))

\* _get_node_channels_from_mempool(pubkey), the answer of mempool.space for
\* the node being a function of the node alone
get_node_channels_from_mempool(node) ==
    IF node.channels_ok
    THEN [status |-> "OK", pubkey |-> node.publicKey,
          average_fee_rate_ppm |-> node.average_fee_rate_ppm]
    ELSE [status |-> "ERROR", pubkey |-> node.publicKey,
          average_fee_rate_ppm |-> NoRate]

\* mutant: the results are taken in the order in which the calls completed
ChannelResults_AsCompleted(calls) ==
    [k \in 1..Len(calls.finished) |-> calls.result[calls.finished[k]]]

\* list(executor.map(...)): the results in the order of the arguments
ChannelResults(calls) == calls.result

\* the result is kept by the filter of lines 111-120
IsSuitable(result) ==
    /\ result.status = "OK"
    /\ result.pubkey # BLACKLISTED
    /\ ~(result.average_fee_rate_ppm # NoRate
           /\ result.average_fee_rate_ppm <= LOW_FEE_RATE)

\* the score the details of a node give (lines 123-129), the details being
\* fetched by the calling thread while it goes through the results
ScoreOfDetails(pubkey, nodes) ==
    nodes[CHOOSE k \in 1..Len(nodes) : nodes[k].publicKey = pubkey].score

\* final_nodes before the sort
FinalNodes(channel_results, nodes) ==
    LET kept == SelectSeq(channel_results, IsSuitable)
    IN  [k \in 1..Len(kept) |->
            [pub_key |-> kept[k].pubkey,
             score |-> ScoreOfDetails(kept[k].pubkey, nodes),
             average_fee_rate_ppm |-> kept[k].average_fee_rate_ppm]]

\* a call of get_top_and_filter_nodes is about to be made
TopNodesInit ==
    /\ MainInit
    /\ \E top_by_channels \in Rankings, limit \in { 2, 10 } :
         toolCall = [tool |-> "get_top_and_filter_nodes",
                     top_by_channels |-> top_by_channels,
                     limit |-> limit]
    /\ toolResult = NoResult
    /\ swaps = <<>>
    /\ loopOutRequests = <<>>
    /\ lndCalls = <<>>
    /\ futures = NoFutures
    /\ BfsIdle

\* the call is running
FetchingTopNodes ==
    toolCall.tool = "get_top_and_filter_nodes" /\ toolResult = NoResult

\* lines 83-106: the ranking is fetched; an empty one ends the call,
\* otherwise one per-peer call for each candidate is given to the pool
SubmitFetches ==
    /\ FetchingTopNodes
    /\ ~futures.submitted
    /\ IF toolCall.top_by_channels = <<>>
       THEN /\ toolResult' = [status |-> "ERROR", top_nodes_summary |-> <<>>]
            /\ UNCHANGED futures
       ELSE LET n == Len(pubkeys_to_check(toolCall.top_by_channels,
                                          toolCall.limit))
            IN  /\ futures' = [submitted |-> TRUE,
                               state |-> [k \in 1..n |-> "queued"],
                               result |-> [k \in 1..n |-> NoResult],
                               finished |-> <<>>]
                /\ UNCHANGED toolResult
    /\ UNCHANGED << mainVars, lndCalls, bfsVars, toolCall, swaps,
                    loopOutRequests >>

\* a thread of the pool starts one of the calls
StartFetch ==
    /\ FetchingTopNodes
    /\ \E k \in 1..Len(futures.state) :
         /\ futures.state[k] = "queued"
         /\ futures' = [futures EXCEPT !.state[k] = "running"]
    /\ UNCHANGED << mainVars, lndCalls, bfsVars, toolCall, toolResult, swaps,
                    loopOutRequests >>

\* one of the running calls returns
CompleteFetch ==
    /\ FetchingTopNodes
    /\ \E k \in 1..Len(futures.state) :
         /\ futures.state[k] = "running"
         /\ futures' =
              [futures EXCEPT
                 !.state[k] = "done",
                 !.result[k] = get_node_channels_from_mempool(
                                   pubkeys_to_check(toolCall.top_by_channels,
                                                    toolCall.limit)[k]),
                 !.finished = Append(@, k)]
    /\ UNCHANGED << mainVars, lndCalls, bfsVars, toolCall, toolResult, swaps,
                    loopOutRequests >>

\* lines 108-148: every call has returned; the results are filtered and
\* sorted by score, highest first
ReturnTopNodes ==
    /\ FetchingTopNodes
    /\ futures.submitted
    /\ \A k \in 1..Len(futures.state) : futures.state[k] = "done"
    /\ toolResult' =
         [status |-> "OK",
          top_nodes_summary |->
              SortedByScore(FinalNodes(ChannelResults(futures),
                                       toolCall.top_by_channels))]
    /\ UNCHANGED << mainVars, lndCalls, bfsVars, toolCall, futures, swaps,
                    loopOutRequests >>

TopNodesNext ==
    \/ SubmitFetches
    \/ StartFetch
    \/ CompleteFetch
    \/ ReturnTopNodes

TopNodesSpec == TopNodesInit /\ [][TopNodesNext]_vars

\* ------------------------------------------------------------------------
\* Properties
\* ------------------------------------------------------------------------

LogIndices == 1..Len(callLog)

\* the round's results as they were produced, before the payload guard
OriginalParts == [i \in LogIndices |-> callLog[i].part]

ResultsInFlight == pc = "awaiting_plan" /\ sent.kind = "results"

HasCall(parts) == \E i \in 1..Len(parts) : parts[i].function_call # ""

\* C1: a sensitive action whose confirmation is declined gets the denial
\* error as its result and its collaborator is never invoked for it.
C1_DeniedNeverForwarded ==
    /\ \A i \in LogIndices :
         (callLog[i].name \in sensitive_tools /\ callLog[i].confirmation = "no")
         => /\ callLog[i].part.name = callLog[i].name
            /\ callLog[i].part.response =
                   [error |-> <<"User denied execution of tool: ",
                                callLog[i].name>>,
                    status |-> ""]
            /\ ~callLog[i].invoked
            /\ (pc \in {"confirm", "execute", "send_results"}
                  => tool_responses_parts[i] = callLog[i].part)
    /\ (pc = "execute" => confirmation # "no")

C1_Witness ==
    /\ ResultsInFlight
    /\ \E i \in LogIndices :
         /\ callLog[i].name \in sensitive_tools
         /\ callLog[i].confirmation = "no"
         /\ callLog[i].outcome = "denied"

\* the actions the claim C2 lists as gated
C2_GatedActions ==
    { "execute_channel_opens", "initiate_loop_out", "set_fee_policy",
      "execute_channel_closes" }

\* C2: an on-chain spend, a swap initiation, a fee mutation or a channel
\* close is executed only after an affirmative confirmation for that request.
C2_GatedOnlyAfterYes ==
    /\ \A i \in LogIndices :
         (callLog[i].name \in C2_GatedActions /\ callLog[i].invoked)
         => callLog[i].confirmation = "yes"
    /\ ((pc = "execute" /\ function_calls_to_execute[idx] \in C2_GatedActions)
          => confirmation = "yes")

\* C3: a raising collaborator call yields {"error": <message>} for that
\* action; the later actions are still processed, the results are still sent
\* and the tick loop goes on.
C3_FailureContained ==
    (\E i \in LogIndices : callLog[i].outcome = "raised")
    => /\ \A i \in LogIndices :
            callLog[i].outcome = "raised"
            => callLog[i].part.response =
                   [error |-> callLog[i].exception, status |-> ""]
       /\ \/ /\ pc \in {"confirm", "execute"}
             /\ idx = Len(callLog) + 1
             /\ idx <= Len(function_calls_to_execute)
          \/ /\ pc = "send_results"
             /\ Len(callLog) = Len(function_calls_to_execute)
          \/ /\ ResultsInFlight
             /\ Len(callLog) = Len(function_calls_to_execute)
             /\ sent.parts = GuardPayload(OriginalParts)
          \/ pc = "STOPPED" /\ stopCause = "interrupt"
       /\ \A i \in LogIndices : callLog[i].name = function_calls_to_execute[i]

C3_Witness ==
    /\ ResultsInFlight
    /\ Len(callLog) >= 2
    /\ callLog[1].outcome = "raised"
    /\ callLog[2].outcome = "returned"
    /\ sent.parts = OriginalParts

\* C4: a name with no implementation yields the "Unknown function" error
\* result; nothing escapes the dispatcher, the request is not skipped and the
\* other actions of the batch are still processed.
C4_UnknownFunction ==
    (\E i \in LogIndices : callLog[i].name \notin tool_implementations)
    => /\ \A i \in LogIndices :
            callLog[i].name \notin tool_implementations
            => /\ callLog[i].part.name = callLog[i].name
               /\ callLog[i].part.response =
                      [error |-> <<"Unknown function requested by model: ",
                                   callLog[i].name>>,
                       status |-> ""]
               /\ ~callLog[i].invoked
       /\ \/ /\ pc \in {"confirm", "execute"}
             /\ idx = Len(callLog) + 1
             /\ idx <= Len(function_calls_to_execute)
          \/ /\ pc = "send_results"
             /\ Len(callLog) = Len(function_calls_to_execute)
          \/ /\ ResultsInFlight
             /\ Len(callLog) = Len(function_calls_to_execute)
          \/ pc = "STOPPED" /\ stopCause = "interrupt"
       /\ \A i \in LogIndices : callLog[i].name = function_calls_to_execute[i]

C4_Witness ==
    /\ ResultsInFlight
    /\ Len(callLog) >= 2
    /\ callLog[1].outcome = "unknown"
    /\ callLog[2].outcome = "returned"
    /\ sent.parts = OriginalParts

\* C5: results longer than 30000 characters are replaced by exactly one
\* synthetic error result; results within the ceiling are sent unchanged.
C5_PayloadGuard ==
    ResultsInFlight
    => IF PayloadLength(OriginalParts) > 30000
       THEN /\ Len(sent.parts) = 1
            /\ sent.parts[1].name = "error_handler"
            /\ sent.parts[1].response.error # <<>>
            /\ \A i \in LogIndices : sent.parts[1] # OriginalParts[i]
       ELSE sent.parts = OriginalParts

C5_Witness ==
    /\ ResultsInFlight
    /\ Len(callLog) = 2
    /\ PayloadLength(OriginalParts) > 30000
    /\ Len(sent.parts) = 1

\* C6: within a tick a further planner call follows a round if and only if
\* the round held an action request; a round of narrative only ends the tick.
C6_FurtherCallIffActions ==
    /\ (pc \in {"confirm", "execute", "send_results"} \/ ResultsInFlight)
         => HasCall(current_response_parts)
    /\ (pc = "awaiting_plan" => (sent.first <=> sent.kind = "text"))
    /\ (pc = "waiting" => ~HasCall(current_response_parts))
    /\ (ResultsInFlight => Len(callLog) = Len(function_calls_to_execute))

C6_Witness ==
    /\ pc = "waiting"
    /\ ~plannerFailed
    /\ current_response_parts # <<>>
    /\ ~HasCall(current_response_parts)

\* C7: a line other than the reserved tokens typed during the wait is the
\* first planner message of the next tick; without input the first message is
\* the default instruction.
C7_OperatorLineIsNextInstruction ==
    (pc = "awaiting_plan" /\ sent.first)
    => sent.text =
         IF /\ controlInput.ready
            /\ Strip(controlInput.line) # <<>>
            /\ Lower(Strip(controlInput.line)) \notin EXIT_TOKENS
         THEN Strip(controlInput.line)
         ELSE DEFAULT_INSTRUCTION

\* C8 (state part): after a failed planner call no action of that tick is
\* executed, STOPPED is entered only by an interrupt or a reserved token, and
\* the next planner call is the first call of a new tick.
C8_Safety ==
    /\ (plannerFailed => pc \in {"tick_start", "waiting", "STOPPED"})
    /\ (pc = "STOPPED" => stopCause \in {"interrupt", "exit_token"})
    /\ (stopCause = "exit_token" => controlInput.ready)
    /\ (pc = "awaiting_plan" /\ sent.afterFailure => sent.first)

NewTickCalled == pc = "awaiting_plan" /\ sent.first

\* C8: a failed planner call abandons the tick without stopping the
\* orchestrator, and a later tick starts with a new planner call unless the
\* operator stops it.
C8_PlannerFailureAbandonsTick ==
    /\ []C8_Safety
    /\ (plannerFailed ~> (NewTickCalled \/ pc = "STOPPED"))

C8_Witness ==
    /\ plannerFailed
    /\ pc = "waiting"
    /\ function_calls_to_execute # <<>>

\* C9: after a failed planner call the orchestrator waits (interval or
\* operator input) before the next planner call; it never retries at once.
C9_WaitsBeforeRetry ==
    (pc = "awaiting_plan" /\ sent.afterFailure) => sent.waited

UpperChar(c) ==
    CASE c = "e" -> "E" [] c = "x" -> "X" [] c = "i" -> "I" [] c = "t" -> "T"
      [] c = "q" -> "Q" [] c = "u" -> "U" [] OTHER -> c

\* line is a reserved token in some letter case, surrounded by whitespace
MatchesReservedToken(line) ==
    \E t \in { <<"e", "x", "i", "t">>, <<"q", "u", "i", "t">> } :
      \E a \in 0..Len(line) :
        /\ a + Len(t) <= Len(line)
        /\ \A i \in 1..a : line[i] \in {" ", "\t", "\n"}
        /\ \A i \in 1..Len(t) : line[a + i] \in { t[i], UpperChar(t[i]) }
        /\ \A i \in (a + Len(t) + 1)..Len(line) : line[i] \in {" ", "\t", "\n"}

\* C10: a line equal to exit or quit in any letter case, after trimming,
\* stops the orchestrator with no further planner call or action; no other
\* line, and no absence of input, stops it.
C10_ReservedTokensStop ==
    /\ (controlInput.ready /\ MatchesReservedToken(controlInput.line))
         => (pc = "STOPPED" /\ sent = NoMessage)
    /\ (stopCause = "exit_token"
          => /\ pc = "STOPPED"
             /\ controlInput.ready
             /\ MatchesReservedToken(controlInput.line))
    /\ ((controlInput.ready /\ ~MatchesReservedToken(controlInput.line))
          => stopCause # "exit_token")

C10_Witness ==
    /\ pc = "STOPPED"
    /\ stopCause = "exit_token"
    /\ controlInput.line = <<" ", "Q", "u", "I", "t", "\t", "\n">>

\* the call parts of the current response, in the order the planner listed
\* them
ListedCalls == SelectSeq(current_response_parts, LAMBDA p : p.function_call # "")

DispatcherAtWork == pc \in { "confirm", "execute", "send_results" }

\* C11: within a round the requested actions are processed one at a time in
\* the order the planner listed them: when action k is at its prompt or its
\* collaborator call, exactly the k-1 actions before it have a result; and,
\* unless the payload guard fires, the results sent are one per request in
\* that order.
C11_SequentialInOrder ==
    /\ DispatcherAtWork
         => /\ Len(function_calls_to_execute) = Len(ListedCalls)
            /\ \A i \in 1..Len(ListedCalls) :
                 function_calls_to_execute[i] = ListedCalls[i].function_call
            /\ Len(callLog) = idx - 1
            /\ tool_responses_parts = OriginalParts
            /\ \A i \in LogIndices :
                 /\ callLog[i].name = ListedCalls[i].function_call
                 /\ callLog[i].part.name = callLog[i].name
            /\ (pc = "send_results") = (idx = Len(ListedCalls) + 1)
    /\ (ResultsInFlight /\ ~(PayloadLength(OriginalParts) > MAX_PAYLOAD_SIZE_CHARACTERS))
         => /\ Len(sent.parts) = Len(ListedCalls)
            /\ \A i \in 1..Len(ListedCalls) :
                 /\ sent.parts[i].name = ListedCalls[i].function_call
                 /\ sent.parts[i] = callLog[i].part

C11_Witness ==
    /\ ResultsInFlight
    /\ Len(current_response_parts) = 2
    /\ Len(sent.parts) = 2
    /\ sent.parts[1].name = "initiate_loop_out"
    /\ sent.parts[2].name = "get_lnd_info"
    /\ callLog[1].outcome = "returned"
    /\ callLog[2].outcome = "returned"

\* C13: a request that omits an argument its implementation requires, or
\* supplies one it does not accept, gets an error result under its own name
\* and its collaborator is not invoked; a collaborator is invoked only with
\* exactly the arguments it takes.
C13_ArgumentMismatch ==
    \A i \in LogIndices :
      LET e == callLog[i]
      IN  /\ (e.name \in tool_implementations /\ e.outcome # "denied"
                /\ e.args # ImplementationParams(e.name))
              => /\ ~e.invoked
                 /\ e.part.name = e.name
                 /\ e.part.response.error # <<>>
                 /\ e.part.response.status = ""
                 /\ (DispatcherAtWork => tool_responses_parts[i] = e.part)
          /\ (e.invoked => e.args = ImplementationParams(e.name))

C13_Witness ==
    /\ ResultsInFlight
    /\ \E i, j \in LogIndices :
         /\ callLog[i].name = "execute_rebalance"
         /\ callLog[i].confirmation = "yes"
         /\ callLog[i].args = { "outgoing_channel_id", "incoming_channel_id" }
         /\ callLog[i].outcome = "mismatch"
         /\ callLog[j].name = "get_lnd_info"
         /\ callLog[j].args = { "memo" }
         /\ callLog[j].outcome = "mismatch"
         /\ sent.parts[i].response.error # <<>>
         /\ sent.parts[j].response.error # <<>>

RECURSIVE IntegersWhereDeclared(_, _)
\* every position of `value` the schema types as integer holds an integer
IntegersWhereDeclared(schema, value) ==
    CASE schema.type = "integer" -> value.t = "int"
      [] schema.type = "array" /\ value.t = "list" /\ schema.items # <<>> ->
             \A i \in 1..Len(value.items) :
               IntegersWhereDeclared(schema.items[1], value.items[i])
      [] schema.type = "object" /\ value.t = "obj" ->
             \A i \in 1..Len(value.items) :
               LET found == PropertyOf(schema, value.items[i].key)
               IN  found # <<>>
                     => IntegersWhereDeclared(found[1], value.items[i])
      [] OTHER -> TRUE

RECURSIVE UnchangedElsewhere(_, _, _)
\* `after` differs from `before` at most at positions typed as integer
UnchangedElsewhere(schema, before, after) ==
    CASE schema.type = "integer" -> before.t = "int" => after = before
      [] schema.type = "array" /\ before.t = "list" /\ schema.items # <<>> ->
             /\ after.t = "list" /\ after.key = before.key
             /\ Len(after.items) = Len(before.items)
             /\ \A i \in 1..Len(before.items) :
                  UnchangedElsewhere(schema.items[1], before.items[i],
                                     after.items[i])
      [] schema.type = "object" /\ before.t = "obj" ->
             /\ after.t = "obj" /\ after.key = before.key
             /\ Len(after.items) = Len(before.items)
             /\ \A i \in 1..Len(before.items) :
                  LET found == PropertyOf(schema, before.items[i].key)
                  IN  IF found = <<>>
                      THEN after.items[i] = before.items[i]
                      ELSE UnchangedElsewhere(found[1], before.items[i],
                                              after.items[i])
      [] OTHER -> after = before

Sanitized ==
    toolCall.tool = "sanitize_arguments" /\ toolResult.status = "returned"

\* C12: after sanitisation every argument value at a position the declared
\* schema types as integer (a top-level parameter, an item of an array of
\* integers, a field of an object inside an array of objects) is an integer,
\* and every other argument is unchanged.
C12_IntegersWhereDeclared ==
    (Sanitized /\ toolCall.name \in DeclaredNames)
    => /\ IntegersWhereDeclared(DeclaredParameters(toolCall.name),
                                toolResult.args)
       /\ UnchangedElsewhere(DeclaredParameters(toolCall.name),
                             toolCall.args, toolResult.args)

InitiateCalled == toolCall.tool = "initiate_loop_out"

PendingMessage == "Channel is already part of a pending Loop Out swap."

\* a LoopOut request is sent in this step
RequestSent == loopOutRequests' # loopOutRequests

\* C14: when the listing initiate_loop_out obtained contains a swap that is
\* neither SUCCESS nor FAILED and has the target channel in its outgoing
\* channel set, the call sends no LoopOut request and returns the pending
\* message.
C14_ListedPendingBlocks ==
    /\ [](InitiateCalled /\ PendingSwapListed(toolCall.listing,
                                              toolCall.channel_id)
            => toolResult.message = PendingMessage)
    /\ [][RequestSent
            => ~PendingSwapListed(toolCall'.listing, toolCall'.channel_id)]_vars

C14_Witness ==
    /\ InitiateCalled
    /\ PendingSwapListed(toolCall.listing, toolCall.channel_id)
    /\ toolResult.message = PendingMessage
    /\ Len(loopOutRequests) = 1
    /\ loopOutRequests[1].outgoing_chan_set = { toolCall.channel_id }
    /\ Len(swaps) = 1

\* the swap service holds an unresolved swap that uses the channel
UnresolvedSwapOn(channel_id) ==
    \E i \in 1..Len(swaps) :
      Unresolved(swaps[i]) /\ channel_id \in swaps[i].outgoing_chan_set

\* C15: whatever the listing returns (a failure, or only the 10 most recent
\* swaps of the last 24 hours), no LoopOut request is sent for a channel that
\* is in the outgoing channel set of a still unresolved swap.
C15_NeverDoubleInitiates ==
    [][RequestSent => ~UnresolvedSwapOn(toolCall'.channel_id)]_vars

\* C16: a request rejected because the channel is already in an unresolved
\* swap is reported as a no-op result, not as an error result.
C16_RejectionIsNoOp ==
    (InitiateCalled /\ toolResult.message = PendingMessage)
    => toolResult.status # "ERROR"

RequestIndices == 1..Len(loopOutRequests)

\* the ceiling c as a rate of the amount a, in satoshis per 10000
RatePer10000(c, a) == (c * 10000) \div a

\* ceilings c1 for amount a1 and c2 for amount a2 are the same fraction of
\* their amounts; rounding a ceiling to a whole satoshi moves the rate of an
\* amount of 10000 or more by at most 3
SameFraction(c1, a1, c2, a2) ==
    (a1 >= 10000 /\ a2 >= 10000)
    => /\ RatePer10000(c1, a1) - RatePer10000(c2, a2) <= 3
       /\ RatePer10000(c2, a2) - RatePer10000(c1, a1) <= 3

\* C19 as stated: every fee ceiling sent with a swap initiation (maximum swap
\* fee, maximum swap routing fee, maximum prepay routing fee) is a fixed
\* fraction of the swap amount, never a flat value.
C19_CeilingsAreFractions ==
    \A i, j \in RequestIndices :
      LET p == loopOutRequests[i]
          q == loopOutRequests[j]
      IN  /\ SameFraction(p.max_swap_fee, p.amt, q.max_swap_fee, q.amt)
          /\ SameFraction(p.max_swap_routing_fee, p.amt,
                          q.max_swap_routing_fee, q.amt)
          /\ SameFraction(p.max_prepay_routing_fee, p.amt,
                          q.max_prepay_routing_fee, q.amt)

\* C19 amended: the maximum swap fee is 0.21% of the amount rounded down (one
\* less where the floating-point product falls short), the maximum swap
\* routing fee is 0.35% of the amount rounded down plus 1, and the maximum
\* prepay routing fee is the flat 100 that goes with the flat prepay ceiling
\* of 30000, whatever the amount.
C19_SwapCeilingsScalePrepayFlat ==
    \A i \in RequestIndices :
      LET q == loopOutRequests[i]
      IN  /\ q.amt > 0 /\ q.amt <= 10000000
          /\ 10000 * q.max_swap_fee <= 21 * q.amt
          /\ 21 * q.amt < 10000 * (q.max_swap_fee + 2)
          /\ 10000 * (q.max_swap_routing_fee - 1) <= 35 * q.amt
          /\ 35 * q.amt < 10000 * q.max_swap_routing_fee
          /\ q.max_prepay_amt = 30000
          /\ q.max_prepay_routing_fee = 100

C19_Witness ==
    /\ Len(loopOutRequests) = 2
    /\ loopOutRequests[1].amt = 30000
    /\ loopOutRequests[1].max_swap_fee = 62
    /\ loopOutRequests[1].max_swap_routing_fee = 106
    /\ loopOutRequests[2].amt = 10000000
    /\ loopOutRequests[2].max_swap_fee = 21000
    /\ loopOutRequests[2].max_swap_routing_fee = 35001
    /\ loopOutRequests[1].max_prepay_routing_fee = 100
    /\ loopOutRequests[2].max_prepay_routing_fee = 100

QuotesReturned ==
    toolCall.tool = "calculate_and_quote_loop_outs" /\ toolResult.status = "OK"

\* min(max(local_balance - capacity div 2, 0), 10,000,000)
C17_ExpectedAmount(channel) ==
    LET raw == channel.local_balance - (channel.capacity \div 2)
        floored == IF raw > 0 THEN raw ELSE 0
    IN  IF floored < 10000000 THEN floored ELSE 10000000

\* C17: for every requested channel found with capacity > 0 and
\* local_balance >= 0 the reported loop_out_amount_sat is
\* min(max(local_balance - capacity div 2, 0), 10,000,000); a quote is
\* requested exactly when the amount is > 0, and when it is 0 the entry has
\* status OK and no quote.
C17_QuoteAmount ==
    QuotesReturned
    => \A i \in 1..Len(toolCall.channel_ids) :
         LET id == toolCall.channel_ids[i]
             e == toolResult.channel_quotes[i]
         IN  (/\ id \in DOMAIN toolCall.channels
              /\ toolCall.channels[id].capacity > 0
              /\ toolCall.channels[id].local_balance >= 0)
             => /\ e.loop_out_amount_sat =
                       C17_ExpectedAmount(toolCall.channels[id])
                /\ e.quoted = (e.loop_out_amount_sat > 0)
                /\ (e.quoted => e.quote = toolCall.outcomes[i])
                /\ (e.loop_out_amount_sat = 0
                      => e.status = "OK" /\ e.quote = "None")

C17_Witness ==
    /\ QuotesReturned
    /\ Len(toolResult.channel_quotes) = 2
    /\ toolCall.channels["101"] =
           [capacity |-> 20000000, local_balance |-> 20000000]
    /\ toolCall.channels["102"] =
           [capacity |-> 10000000, local_balance |-> 4000000]
    /\ toolResult.channel_quotes[1].channel_id = "101"
    /\ toolResult.channel_quotes[1].loop_out_amount_sat = 10000000
    /\ toolResult.channel_quotes[1].quote = "OK"
    /\ toolResult.channel_quotes[2].channel_id = "102"
    /\ toolResult.channel_quotes[2].loop_out_amount_sat = 0
    /\ toolResult.channel_quotes[2].quote = "None"

\* C18: the result has exactly one entry per requested id, in request
\* order; an id that is not found, or whose quote fails, gets its own error
\* entry or failed quote, the batch status stays OK, and every id's entry is
\* the one it gets when requested alone.
C18_IndependentEntries ==
    QuotesReturned
    => /\ Len(toolResult.channel_quotes) = Len(toolCall.channel_ids)
       /\ \A i \in 1..Len(toolCall.channel_ids) :
            LET id == toolCall.channel_ids[i]
                e == toolResult.channel_quotes[i]
                alone == calculate_and_quote_loop_outs(
                             TRUE, toolCall.channels, << id >>,
                             << toolCall.outcomes[i] >>)
            IN  /\ e.channel_id = id
                /\ alone.status = "OK"
                /\ e = alone.channel_quotes[1]
                /\ (id \notin DOMAIN toolCall.channels
                      => e.status = "ERROR" /\ e.message = "Channel not found.")

C18_Witness ==
    /\ QuotesReturned
    /\ toolCall.channel_ids = << "404", "101" >>
    /\ toolResult.channel_quotes[1].status = "ERROR"
    /\ toolResult.channel_quotes[2].status = "OK"
    /\ toolResult.channel_quotes[2].loop_out_amount_sat = 3000000
    /\ toolResult.channel_quotes[2].quote = "ERROR"

FlowAnalysed ==
    toolCall.tool = "analyze_channel_liquidity_flow" /\ toolResult.status = "OK"

\* the channel is the inbound or the outbound channel of some event
InSomeEvent(c) ==
    \E k \in 1..Len(toolCall.forwarding_events) :
      \/ toolCall.forwarding_events[k].chan_id_in = c
      \/ toolCall.forwarding_events[k].chan_id_out = c

\* C20: for every analysed channel with inbound total I and outbound total
\* O the trend is outbound iff O > 1.1 * I, inbound iff I > 1.1 * O, balanced
\* iff neither holds and I + O > 0, stagnant iff I = O = 0; a channel that
\* appears in no forwarding event has I = O = 0 and trend stagnant.
C20_TrendClassification ==
    FlowAnalysed
    => \A i \in 1..Len(toolResult.channel_analysis) :
         LET r == toolResult.channel_analysis[i]
             I == r.inbound_msat_7d
             O == r.outbound_msat_7d
         IN  /\ r.liquidity_trend \in
                    { "outbound", "inbound", "balanced", "stagnant" }
             /\ (r.liquidity_trend = "outbound") = (10 * O > 11 * I)
             /\ (r.liquidity_trend = "inbound") = (10 * I > 11 * O)
             /\ (r.liquidity_trend = "balanced")
                  = (~(10 * O > 11 * I) /\ ~(10 * I > 11 * O) /\ I + O > 0)
             /\ (r.liquidity_trend = "stagnant") = (I = 0 /\ O = 0)
             /\ (~InSomeEvent(r.channel_id)
                   => I = 0 /\ O = 0 /\ r.liquidity_trend = "stagnant")

C20_Witness ==
    /\ FlowAnalysed
    /\ Len(toolCall.forwarding_events) = 2
    /\ \E i, j, k \in 1..Len(toolResult.channel_analysis) :
         /\ toolResult.channel_analysis[i].channel_id = "101"
         /\ toolResult.channel_analysis[i].inbound_msat_7d = 11
         /\ toolResult.channel_analysis[i].outbound_msat_7d = 10
         /\ toolResult.channel_analysis[i].liquidity_trend = "balanced"
         /\ toolResult.channel_analysis[j].channel_id = "102"
         /\ toolResult.channel_analysis[j].inbound_msat_7d = 12
         /\ toolResult.channel_analysis[j].outbound_msat_7d = 10
         /\ toolResult.channel_analysis[j].liquidity_trend = "inbound"
         /\ toolResult.channel_analysis[k].channel_id = "104"
         /\ toolResult.channel_analysis[k].liquidity_trend = "stagnant"

\* the channels given to the analysis, by position in the channel list
InputChannels == 1..Len(toolCall.channels)

\* the records of the result that describe the channel
RecordsOf(c) ==
    { i \in 1..Len(toolResult.channel_analysis) :
        toolResult.channel_analysis[i].channel_id = c }

\* C21: the output of analyze_channel_liquidity_flow has exactly one record
\* for each channel of the input channel list; no channel, the one with the
\* Loop node included, is left out.
C21_OneRecordPerChannel ==
    FlowAnalysed
    => \A k \in InputChannels :
         Cardinality(RecordsOf(toolCall.channels[k].chan_id)) = 1

RECURSIVE SumOf(_, _)
\* the sum of amount[k] over the indices k of the set
SumOf(indices, amount) ==
    IF indices = {} THEN 0
    ELSE LET k == CHOOSE x \in indices : TRUE
         IN  amount[k] + SumOf(indices \ { k }, amount)

\* the events of the history whose inbound channel is c
EventsInto(c) ==
    { k \in 1..Len(toolCall.forwarding_events) :
        toolCall.forwarding_events[k].chan_id_in = c }

\* the events of the history whose outbound channel is c
EventsOutOf(c) ==
    { k \in 1..Len(toolCall.forwarding_events) :
        toolCall.forwarding_events[k].chan_id_out = c }

\* C22: for each analysed channel c the inbound total is the sum of the
\* inbound amounts of the events whose inbound channel is c, and the
\* outbound total the sum of the outbound amounts of the events whose
\* outbound channel is c; an event adds to no other bucket.
C22_FlowTotals ==
    FlowAnalysed
    => \A i \in 1..Len(toolResult.channel_analysis) :
         LET r == toolResult.channel_analysis[i]
             events == toolCall.forwarding_events
         IN  /\ r.inbound_msat_7d
                  = SumOf(EventsInto(r.channel_id),
                          [k \in 1..Len(events) |-> events[k].amt_in_msat])
             /\ r.outbound_msat_7d
                  = SumOf(EventsOutOf(r.channel_id),
                          [k \in 1..Len(events) |-> events[k].amt_out_msat])

\* one event has added to the buckets of two channels, and a later event
\* with no inbound channel only to its outbound channel's
C22_Witness ==
    /\ FlowAnalysed
    /\ Len(toolCall.forwarding_events) = 2
    /\ toolCall.forwarding_events[1].chan_id_in = "101"
    /\ toolCall.forwarding_events[1].chan_id_out = "102"
    /\ toolCall.forwarding_events[2].chan_id_in = NoChannel
    /\ \E i, j \in 1..Len(toolResult.channel_analysis) :
         /\ toolResult.channel_analysis[i].channel_id = "101"
         /\ toolResult.channel_analysis[i].inbound_msat_7d = 12
         /\ toolResult.channel_analysis[i].outbound_msat_7d = 0
         /\ toolResult.channel_analysis[j].channel_id = "102"
         /\ toolResult.channel_analysis[j].inbound_msat_7d = 0
         /\ toolResult.channel_analysis[j].outbound_msat_7d = 20

\* the orders in which a history of n events can be listed
Orders(n) ==
    { order \in [1..n -> 1..n] :
        \A a, b \in 1..n : order[a] = order[b] => a = b }

\* C23: the analysis is a function of its inputs: a second run on the same
\* channels, events and pending swaps gives identical records (trend,
\* ratio, flow totals, last-forward time), whatever the order in which the
\* forwarding events are listed.
C23_OrderIndependent ==
    FlowAnalysed
    => \A order \in Orders(Len(toolCall.forwarding_events)) :
         analyze_channel_liquidity_flow(
             toolCall.failure, toolCall.channels,
             [k \in 1..Len(toolCall.forwarding_events) |->
                 toolCall.forwarding_events[order[k]]],
             toolCall.pending) = toolResult

\* the later of two forwards of a channel is listed first, and the record
\* carries its time
C23_Witness ==
    /\ FlowAnalysed
    /\ Len(toolCall.forwarding_events) = 2
    /\ toolCall.forwarding_events[1].chan_id_in = "101"
    /\ toolCall.forwarding_events[1].timestamp_ns = 2
    /\ toolCall.forwarding_events[2].chan_id_out = "101"
    /\ toolCall.forwarding_events[2].timestamp_ns = 1
    /\ toolCall.forwarding_events[1].amt_in_msat = 12
    /\ toolCall.forwarding_events[2].amt_out_msat = 10
    /\ \E i \in 1..Len(toolResult.channel_analysis) :
         /\ toolResult.channel_analysis[i].channel_id = "101"
         /\ toolResult.channel_analysis[i].last_forward_time = 2
         /\ toolResult.channel_analysis[i].liquidity_trend = "inbound"
         /\ toolResult.channel_analysis[i].balance_ratio = 9000

OpportunitiesReturned ==
    toolCall.tool = "find_rebalance_opportunities" /\ toolResult.status = "OK"

\* the channel of the list that has the id
ChannelWithId(id) ==
    CHOOSE k \in 1..Len(toolCall.channels) : toolCall.channels[k].chan_id = id

\* C24: find_rebalance_opportunities never returns a pair whose outgoing
\* channel id equals its incoming channel id, and never a pair whose
\* outgoing channel is with the Loop node.
C24_NoSelfPairNoLoopSurplus ==
    OpportunitiesReturned
    => \A k \in 1..Len(toolResult.opportunities) :
         LET o == toolResult.opportunities[k]
         IN  /\ o.outgoing_channel_id # o.incoming_channel_id
             /\ toolCall.channels[ChannelWithId(o.outgoing_channel_id)]
                    .remote_pubkey # "LOOP_NODE_PUBKEY"

\* pairs are returned while a Loop-node channel is above the high threshold
C24_Witness ==
    /\ OpportunitiesReturned
    /\ Len(toolResult.opportunities) >= 1
    /\ \E k \in 1..Len(toolCall.channels) :
         /\ toolCall.channels[k].remote_pubkey = "LOOP_NODE_PUBKEY"
         /\ toolCall.channels[k].local_balance = 100

\* the pairs the thresholds define: o at 75% or more and not with the Loop
\* node, i at 25% or less
QualifyingPairs ==
    { << toolCall.channels[o].chan_id, toolCall.channels[i].chan_id >> :
        o \in { a \in 1..Len(toolCall.channels) :
                 /\ BalanceSum(toolCall.channels[a]) > 0
                 /\ 4 * toolCall.channels[a].local_balance
                       >= 3 * BalanceSum(toolCall.channels[a])
                 /\ toolCall.channels[a].remote_pubkey # "LOOP_NODE_PUBKEY" },
        i \in { b \in 1..Len(toolCall.channels) :
                 4 * toolCall.channels[b].local_balance
                   <= BalanceSum(toolCall.channels[b]) } }

\* the pairs of the result, as << outgoing, incoming >>
ReturnedPairs ==
    { << toolResult.opportunities[k].outgoing_channel_id,
         toolResult.opportunities[k].incoming_channel_id >> :
        k \in 1..Len(toolResult.opportunities) }

\* C25: find_rebalance_opportunities returns exactly the pairs (outgoing o,
\* incoming i) where o has outbound percentage >= 75 and is not with the
\* Loop node and i has outbound percentage <= 25, each once; when the
\* listing succeeds the status is OK, with an empty list when no pair
\* qualifies.
C25_ExactlyTheQualifyingPairs ==
    /\ (toolCall.tool = "find_rebalance_opportunities"
           /\ toolResult # NoResult /\ toolCall.channelsOk
         => toolResult.status = "OK")
    /\ (OpportunitiesReturned
         => /\ ReturnedPairs = QualifyingPairs
            /\ Len(toolResult.opportunities) = Cardinality(QualifyingPairs))

\* channels exactly on both thresholds are paired, one next to a threshold
\* is not
C25_Witness ==
    /\ OpportunitiesReturned
    /\ Len(toolCall.channels) = 3
    /\ toolCall.channels[1].local_balance = 75
    /\ toolCall.channels[1].remote_pubkey = "peer_a"
    /\ toolCall.channels[2].local_balance = 25
    /\ toolCall.channels[3].local_balance = 26
    /\ toolResult.opportunities
         = << [incoming_channel_id |-> "202", outgoing_channel_id |-> "201"] >>

\* propose_channel_opens has answered a call whose balance query succeeded
\* and whose candidates are not the Loop node alone
Proposed ==
    /\ toolCall.tool = "propose_channel_opens"
    /\ toolResult # NoResult
    /\ toolCall.peers # <<>>
    /\ ~(Len(toolCall.peers) = 1
           /\ toolCall.peers[1].pub_key = "LOOP_NODE_PUBKEY")
    /\ toolCall.balanceOk

\* A: the confirmed balance minus the reserve of 1,000,000
AvailableFunding == toolCall.confirmed_balance - 1000000

\* the candidates A can fund at 5,000,000 or more each
Fundable ==
    { k \in 1..Len(toolCall.peers) : AvailableFunding \div k >= 5000000 }

\* the largest member of a non-empty set of numbers
Largest(S) == CHOOSE k \in S : \A j \in S : j <= k

\* C26: when A can fund at least one channel, the first k candidates are
\* kept in input order, k the largest value in 1..n with A div k >=
\* 5,000,000, each funded with A div k, in exactly one operation: 'single'
\* when k = 1, 'batch' when k >= 2, carrying the caller's fee rate.
C26_LargestFundablePrefix ==
    Proposed /\ Fundable # {}
    => LET k == Largest(Fundable)
           ops == toolResult.operations
       IN  /\ toolResult.status = "PROPOSED"
           /\ Len(ops) = 1
           /\ ops[1].sat_per_vbyte = toolCall.sat_per_vbyte
           /\ ops[1].type = (IF k = 1 THEN "single" ELSE "batch")
           /\ (k = 1
                 => /\ ops[1].node_pubkey = toolCall.peers[1].pub_key
                    /\ ops[1].local_funding_amount_sat = AvailableFunding)
           /\ (k >= 2
                 => /\ Len(ops[1].channels) = k
                    /\ \A j \in 1..k :
                         /\ ops[1].channels[j].node_pubkey
                              = toolCall.peers[j].pub_key
                         /\ ops[1].channels[j].local_funding_amount_sat
                              = AvailableFunding \div k)

\* A = 20,000,000 and five candidates: four are kept at 5,000,000 each
C26_Witness ==
    /\ Proposed
    /\ AvailableFunding = 20000000
    /\ Len(toolCall.peers) = 5
    /\ toolResult.operations[1].type = "batch"
    /\ Len(toolResult.operations[1].channels) = 4
    /\ toolResult.operations[1].channels[4].local_funding_amount_sat = 5000000
    /\ toolResult.operations[1].channels[4].node_pubkey = "peer_4"

\* C27: whenever the available funding cannot give one candidate the
\* 5,000,000 minimum, a confirmed balance at or below the reserve included,
\* the outcome is the non-error 'budget insufficient' with no operation.
C27_BudgetInsufficientIsNoError ==
    Proposed /\ Fundable = {}
    => toolResult.status = "OK" /\ toolResult.operations = <<>>

\* C28: when the candidate list is the Loop node alone, the result is
\* exactly one single-open operation for it funded at 30,000,000 sat,
\* whatever the wallet balance.
C28_LoopAloneFixedAmount ==
    /\ toolCall.tool = "propose_channel_opens"
    /\ toolResult # NoResult
    /\ Len(toolCall.peers) = 1
    /\ toolCall.peers[1].pub_key = "LOOP_NODE_PUBKEY"
    => /\ toolResult.status = "PROPOSED"
       /\ toolResult.operations
            = << [type |-> "single", node_pubkey |-> "LOOP_NODE_PUBKEY",
                  local_funding_amount_sat |-> 30000000,
                  sat_per_vbyte |-> toolCall.sat_per_vbyte] >>

\* the Loop node alone is proposed at 30,000,000 while the wallet holds
\* less than the reserve
C28_Witness ==
    /\ toolCall.tool = "propose_channel_opens"
    /\ toolResult # NoResult
    /\ Len(toolCall.peers) = 1
    /\ toolCall.peers[1].pub_key = "LOOP_NODE_PUBKEY"
    /\ toolCall.confirmed_balance = 500000
    /\ toolResult.operations[1].local_funding_amount_sat = 30000000

\* analyze_peer_network has returned
AnalysisReturned ==
    toolCall.tool = "analyze_peer_network"
      /\ toolResult.status \in { "OK", "ERROR" }

\* no pub_key occurs twice in the sequence
NoRepeat(seq, key(_)) ==
    \A a, b \in 1..Len(seq) : key(seq[a]) = key(seq[b]) => a = b

\* the pub_key of a record
PubKeyOf(record) == record.pub_key

\* a pub_key by itself
Itself(pub_key) == pub_key

\* C29: on every node graph, graphs with cycles included,
\* analyze_peer_network returns, and by then no node has been expanded or
\* recorded more than once (expansions keeps every visit made, so none was
\* repeated on the way either).
C29_TerminatesVisitingOnce ==
    <>(/\ AnalysisReturned
       /\ NoRepeat(expansions, Itself)
       /\ NoRepeat(discovered_nodes, PubKeyOf)
       /\ NoRepeat(toolResult.network_analysis, PubKeyOf))

\* the analysis of the two nodes that list each other has returned both,
\* after the second node found the first already visited
C29_Witness ==
    /\ AnalysisReturned
    /\ _global_all_scored_nodes = CycleGraph
    /\ toolCall.start_pubkey = "A"
    /\ toolCall.max_depth = 2
    /\ expansions = << "A", "B" >>
    /\ toolResult.network_analysis
         = << [pub_key |-> "B", score |-> 4, depth |-> 1],
              [pub_key |-> "A", score |-> 3, depth |-> 0] >>

RECURSIVE Power(_, _)
\* base to the power of a natural exponent
Power(base, exponent) ==
    IF exponent = 0 THEN 1 ELSE base * Power(base, exponent - 1)

RECURSIVE LevelsSum(_, _)
\* 1 + g + g^2 + ... + g^d
LevelsSum(g, d) ==
    IF d = 0 THEN 1 ELSE Power(g, d) + LevelsSum(g, d - 1)

\* C30 as stated: the number of nodes visited is at most
\* peers_per_level ^ max_depth.
C30_AtMostFanOutPowerDepth ==
    AnalysisReturned /\ toolResult.status = "OK"
    => Cardinality(visited_pubkeys)
         <= Power(toolCall.peers_per_level, toolCall.max_depth)

\* C30: the number of nodes visited is at most 1 + g + g^2 + ... + g^d for
\* max_depth d, g being peers_per_level, or 1 when peers_per_level is below
\* 1: the start node, and at most g new nodes for every node of the level
\* above.
C30_AtMostSumOfLevels ==
    toolCall.tool = "analyze_peer_network"
    => Cardinality(visited_pubkeys)
         <= LevelsSum(IF toolCall.peers_per_level >= 1
                      THEN toolCall.peers_per_level ELSE 1,
                      toolCall.max_depth)

\* the whole tree of seven nodes is visited at depth 2 with two peers per
\* level
C30_Witness ==
    /\ AnalysisReturned
    /\ _global_all_scored_nodes = TreeGraph
    /\ toolCall.start_pubkey = "T1"
    /\ toolCall.max_depth = 2
    /\ toolCall.peers_per_level = 2
    /\ Cardinality(visited_pubkeys) = 7
    /\ Len(toolResult.network_analysis) = 7

\* calculate_dynamic_fee has returned a fee
FeeReturned ==
    toolCall.tool = "calculate_dynamic_fee" /\ toolResult.status = "OK"

\* the channels of the list that are with the peer of the call
ChannelsOfPeer ==
    { toolCall.channels[k].chan_id :
        k \in { j \in 1..Len(toolCall.channels) :
                 toolCall.channels[j].remote_pubkey = toolCall.pubkey } }

\* the events of the call's history that touch a channel of the peer
EventsOfPeer ==
    { k \in 1..Len(toolCall.forwarding_events) :
        \/ toolCall.forwarding_events[k].chan_id_in \in ChannelsOfPeer
        \/ toolCall.forwarding_events[k].chan_id_out \in ChannelsOfPeer }

\* the 7-day volume of the peer's channels, in msat beyond
\* VolumeSat sats
VolumeRest ==
    SumOf(EventsOfPeer, [k \in 1..Len(toolCall.forwarding_events) |->
                            toolCall.forwarding_events[k].amt_out_rest])

\* the 7-day volume of the peer's channels, in sats
VolumeSat ==
    SumOf(EventsOfPeer, [k \in 1..Len(toolCall.forwarding_events) |->
                            toolCall.forwarding_events[k].amt_in_sat
                              + toolCall.forwarding_events[k].amt_out_sat])

\* volumes at and one msat above every tier boundary, and 0 and beyond
ProbeVolumes ==
    { [sat |-> v, rest |-> r] :
        v \in { 0, 500000, 1000000, 5000000, 10000000, 50000000, 100000000 },
        r \in { 0, 1 } }

\* volume v is at most volume w
AtMost(v, w) == v.sat < w.sat \/ (v.sat = w.sat /\ v.rest <= w.rest)

\* C31: for a counterparty with channels the fee never falls when the
\* trailing 7-day volume of those channels grows; the fee is at least 4000
\* ppm for the Loop node and at least 850 ppm for any other counterparty,
\* and at every volume the Loop node's fee is above an ordinary
\* counterparty's.
C31_FeeMonotoneWithFloors ==
    FeeReturned
    => LET fee == toolResult.fee_ppm
           volume == [sat |-> VolumeSat, rest |-> VolumeRest]
           loop == toolCall.pubkey = "LOOP_NODE_PUBKEY"
       IN  /\ fee >= (IF loop THEN 4000 ELSE 850)
           /\ ChannelsOfPeer # {}
                => \A w \in ProbeVolumes :
                     /\ AtMost(volume, w)
                          => FeePpm(toolCall.pubkey, TRUE, w) >= fee
                     /\ AtMost(w, volume)
                          => FeePpm(toolCall.pubkey, TRUE, w) <= fee
           /\ \A w \in ProbeVolumes, has_channels \in BOOLEAN :
                /\ loop => fee > FeePpm("peer_a", has_channels, w)
                /\ ~loop => fee < FeePpm("LOOP_NODE_PUBKEY", has_channels, w)

\* a peer whose two events add up to one msat above 10,000,000 sats is in
\* the top tier
C31_Witness ==
    /\ FeeReturned
    /\ toolCall.pubkey = "peer_a"
    /\ Len(toolCall.forwarding_events) = 2
    /\ VolumeSat = 10000000
    /\ VolumeRest = 1
    /\ toolResult.fee_ppm = 1500

\* the step is a call of get_node_availability_data
FetchStep == toolCall'.tool = "get_node_availability_data" /\ toolCall' # toolCall

Enqueued == SubSeq(queue', Len(queue), Len(queue'))

\* C33: analyze_peer_network records the start node at depth 0, never
\* records or expands a node deeper than max_depth, and each expanded node
\* enqueues at most peers_per_level peers, all of them in the cache and not
\* yet visited at that moment.
C33_DepthAndFanOutBounded ==
    /\ [](toolCall.tool = "analyze_peer_network"
            => /\ \A k \in 1..Len(discovered_nodes) :
                    /\ discovered_nodes[k].depth <= toolCall.max_depth
                    /\ discovered_nodes[k].pub_key = toolCall.start_pubkey
                         => discovered_nodes[k].depth = 0
               /\ \A k \in 1..Len(queue) :
                    queue[k].depth <= toolCall.max_depth)
    /\ [][Exploring /\ queue # <<>>
            => /\ Len(Enqueued) <= toolCall.peers_per_level
               /\ \A k \in 1..Len(Enqueued) :
                    /\ Enqueued[k].pub_key
                         \in DOMAIN _global_all_scored_nodes
                    /\ Enqueued[k].pub_key \notin visited_pubkeys'
                    /\ Enqueued[k].depth = Head(queue).depth + 1]_vars

\* the amounts a proposal funds channels with, added up
RECURSIVE TotalProposed(_)
TotalProposed(operations) ==
    IF operations = <<>> THEN 0
    ELSE LET op == Head(operations)
         IN  (IF op.type = "single" THEN op.local_funding_amount_sat
              ELSE Len(op.channels)
                     * op.channels[1].local_funding_amount_sat)
               + TotalProposed(Tail(operations))

\* C34: every proposal with status PROPOSED has a total proposed funding
\* amount that does not exceed the available funding, the confirmed
\* balance minus the 1,000,000 reserve.
C34_TotalWithinAvailableFunding ==
    /\ toolCall.tool = "propose_channel_opens"
    /\ toolResult # NoResult
    /\ toolResult.status = "PROPOSED"
    => TotalProposed(toolResult.operations)
         <= toolCall.confirmed_balance - 1000000

\* execute_channel_opens has returned or raised
OpensExecuted ==
    toolCall.tool = "execute_channel_opens" /\ toolResult # NoResult

\* some single operation or some channel of a batch operation funds the
\* Loop node with an amount other than 30,000,000
FundsLoopWrongly(operations) ==
    \E k \in 1..Len(operations) :
      \/ /\ operations[k].type = "single"
         /\ operations[k].node_pubkey = "LOOP_NODE_PUBKEY"
         /\ operations[k].local_funding_amount_sat # 30000000
      \/ /\ operations[k].type = "batch"
         /\ \E j \in 1..Len(operations[k].channels) :
              /\ operations[k].channels[j].node_pubkey = "LOOP_NODE_PUBKEY"
              /\ operations[k].channels[j].local_funding_amount_sat
                   # 30000000

\* C35: execute_channel_opens validates all operations before executing
\* any: when some operation funds the Loop node with another amount than
\* 30,000,000 it returns an error and no channel-open request is sent;
\* otherwise it returns one result per operation in order, an operation of
\* unknown type getting an error result without stopping the others.
C35_ValidatedBeforeAnyIsExecuted ==
    OpensExecuted /\ toolCall.operations # <<>>
    => LET operations == toolCall.operations
       IN  IF FundsLoopWrongly(operations)
           THEN toolResult.status = "ERROR" /\ lndCalls = <<>>
           ELSE /\ toolResult.status = "OK"
                /\ Len(toolResult.results) = Len(operations)
                /\ \A k \in 1..Len(operations) :
                     IF operations[k].type \in { "single", "batch" }
                     THEN toolResult.results[k].status
                            = (IF toolCall.stub_ready /\ toolCall.rpc_ok[k]
                               THEN "OK" ELSE "ERROR")
                     ELSE toolResult.results[k]
                            = [status |-> "ERROR",
                               message |-> "Unknown operation type"]

\* C36: every operations list that propose_channel_opens returns with
\* status PROPOSED passes the validation of execute_channel_opens: it is
\* not rejected by the exactly-30,000,000 rule.
C36_ProposalsPassValidation ==
    /\ toolCall.tool = "propose_channel_opens"
    /\ toolResult # NoResult
    /\ toolResult.status = "PROPOSED"
    => ~FailsValidation(toolResult.operations)

\* execute_rebalance has returned or raised
RebalanceExecuted ==
    toolCall.tool = "execute_rebalance" /\ toolResult # NoResult

\* the positions in lndCalls of the requests made with a method
CallsOf(method) == { k \in 1..Len(lndCalls) : lndCalls[k].rpc = method }

\* the node at the other end of the outgoing channel
OutgoingPeer ==
    LET ends == toolCall.lnd.outgoing.ends
    IN  CHOOSE n \in { ends.node1_pub, ends.node2_pub } : n # "me"

\* the steps before the payment, and whether each went well
PeerChecked ==
    /\ toolCall.lnd.info = "OK"
    /\ toolCall.lnd.outgoing.status = "OK"
    /\ OutgoingPeer # "LOOP_NODE_PUBKEY"

RouteFound ==
    /\ toolCall.lnd.incoming = "OK"
    /\ toolCall.lnd.routes.status = "OK"
    /\ toolCall.lnd.routes.found

InvoiceCreated ==
    toolCall.lnd.invoice.status = "OK" /\ toolCall.lnd.invoice.complete

\* C37: execute_rebalance sends a payment only after, in this order, the
\* outgoing channel's peer was checked not to be the Loop node, a route was
\* found and an invoice was created; when one of these steps fails no later
\* step is performed and no payment is sent.
C37_PaymentOnlyAfterCheckRouteInvoice ==
    RebalanceExecuted
    => /\ CallsOf("_send_to_route_v2") # {}
            => /\ PeerChecked /\ RouteFound /\ InvoiceCreated
               /\ \E c, r, i, p \in 1..Len(lndCalls) :
                    /\ c < r /\ r < i /\ i < p
                    /\ lndCalls[c] = [rpc |-> "get_channel_info",
                                      chan_id |-> toolCall.outgoing_channel_id]
                    /\ CallsOf("_query_routes") = { r }
                    /\ CallsOf("_add_invoice") = { i }
                    /\ CallsOf("_send_to_route_v2") = { p }
       /\ ~PeerChecked
            => CallsOf("_query_routes") \cup CallsOf("_add_invoice")
                 \cup CallsOf("_send_to_route_v2") = {}
       /\ ~RouteFound
            => CallsOf("_add_invoice") \cup CallsOf("_send_to_route_v2") = {}
       /\ ~InvoiceCreated => CallsOf("_send_to_route_v2") = {}

\* a payment was sent after the check, the route and the invoice, through
\* a channel whose first end is the peer
C37_Witness ==
    /\ RebalanceExecuted
    /\ toolCall.lnd.outgoing.ends.node1_pub = "peer_a"
    /\ Len(lndCalls) = 6
    /\ lndCalls[4].rpc = "_query_routes"
    /\ lndCalls[5].rpc = "_add_invoice"
    /\ lndCalls[6].rpc = "_send_to_route_v2"
    /\ toolResult.status = "OK"

\* C38: a rebalance requested with amount_sats = N creates an invoice for
\* and sends a payment of exactly N sats.
C38_ExactlyTheAmountAsked ==
    RebalanceExecuted
    => \A k \in 1..Len(lndCalls) :
         /\ lndCalls[k].rpc = "_add_invoice"
              => lndCalls[k].value_msat = toolCall.amount_sats * 1000
         /\ lndCalls[k].rpc = "_send_to_route_v2"
              => lndCalls[k].total_amt_msat = toolCall.amount_sats * 1000

\* C39: every action name of the catalog has an entry in the dispatch
\* table, and a request carrying exactly the declared required parameters
\* of an action is accepted by its implementation: it ends neither in an
\* 'Unknown function' error nor in an argument-mismatch error.
C39_CatalogIsDispatchable ==
    /\ toolCall.tool = "dispatch"
    /\ toolResult # NoResult
    /\ toolCall.function_name \in Catalog
    /\ toolCall.keys = DeclaredRequired(toolCall.function_name)
    => /\ toolCall.function_name \in tool_implementations
       /\ toolResult.status = "called"

\* the candidates in ranking order
CandidatesInOrder ==
    SubSeq(toolCall.top_by_channels, 1,
           IF toolCall.limit < Len(toolCall.top_by_channels)
           THEN toolCall.limit ELSE Len(toolCall.top_by_channels))

\* the peers kept when the first n candidates are enriched one after the
\* other, in candidate order
RECURSIVE KeptSequentially(_)
KeptSequentially(n) ==
    IF n = 0 THEN <<>>
    ELSE LET node == CandidatesInOrder[n]
             keep == /\ node.channels_ok
                     /\ node.publicKey # BLACKLISTED
                     /\ (node.average_fee_rate_ppm = NoRate
                           \/ node.average_fee_rate_ppm > 100)
         IN  KeptSequentially(n - 1)
               \o (IF keep
                   THEN << [pub_key |-> node.publicKey,
                            score |-> node.score,
                            average_fee_rate_ppm
                                |-> node.average_fee_rate_ppm] >>
                   ELSE <<>>)

\* a is before b in the sequence
Before(seq, a, b) ==
    \E i, j \in 1..Len(seq) : i < j /\ seq[i] = a /\ seq[j] = b

\* C40: the peers get_top_and_filter_nodes returns and their order do not
\* depend on the order in which the parallel per-peer calls start or
\* complete: they are the peers kept by the same calls made one after the
\* other in candidate order, a higher score first and candidate order
\* among equal scores.
C40_SameAsSequentialEnrichment ==
    toolCall.tool = "get_top_and_filter_nodes" /\ toolResult.status = "OK"
    => LET kept == KeptSequentially(Len(CandidatesInOrder))
           returned == toolResult.top_nodes_summary
       IN  /\ Len(returned) = Len(kept)
           /\ \A k \in 1..Len(kept) :
                \E j \in 1..Len(returned) : returned[j] = kept[k]
           /\ \A a, b \in 1..Len(kept) :
                a < b /\ kept[a] # kept[b]
                => IF kept[a].score >= kept[b].score
                   THEN Before(returned, kept[a], kept[b])
                   ELSE Before(returned, kept[b], kept[a])

\* three calls completed in the reverse of the candidate order, the first
\* and the last candidate having the same score
C40_Witness ==
    /\ toolCall.tool = "get_top_and_filter_nodes"
    /\ toolResult.status = "OK"
    /\ futures.finished = << 3, 2, 1 >>
    /\ Len(toolResult.top_nodes_summary) = 3
    /\ toolResult.top_nodes_summary[1].pub_key = "node_2"
    /\ toolResult.top_nodes_summary[2].pub_key = "node_1"
    /\ toolResult.top_nodes_summary[3].pub_key = "node_3"

====
